---- MODULE Spec2Model ----
(***************************************************************************)
(* A model of the wraith traffic engine: the admission controller          *)
(* (src/src/rate_limiter.rs), the upstream manager with its health         *)
(* checking (src/src/proxy.rs) and the router (src/src/router.rs).         *)
(*                                                                         *)
(* Every access to shared data (a lock-guarded section, an atomic          *)
(* operation) is one step of the task that performs it; tasks interleave   *)
(* between such steps, as they do on the multi-threaded runtime.           *)
(***************************************************************************)
EXTENDS Integers, Sequences, FiniteSets, TLC

VARIABLES
    \* ---- RateLimiter (rate_limiter.rs:13-20)
    config,             \* RateLimitConfig
    ddos_config,        \* DdosConfig
    global_limiter,     \* the global token bucket
    per_ip_limiters,    \* HashMap<IpAddr, Arc<limiter>>
    blocked_ips,        \* HashMap<IpAddr, BlockedClient>
    connection_counts,  \* HashMap<IpAddr, ConnectionTracker>
    cc_writer,          \* the task holding connection_counts' write lock across an await
    now,                \* Instant::now(), in seconds
    pc,                 \* where each task stands
    call,               \* the call each task is executing
    last,               \* the call that returned in the step just taken, with its result
    \* ---- ProxyManager (proxy.rs:16-33)
    upstreams,          \* Vec<Upstream>: the configuration of each member
    health_check,       \* HealthCheckGlobalConfig
    healthy,            \* per member: AtomicBool
    current_fails,      \* per member: AtomicUsize
    last_health_check,  \* per member: RwLock<Instant>
    probes,             \* per member and position: how many spawned probes stand there
    stamping,           \* per member and instant: how many probes read that instant and await the write lock
    load_balancing,     \* LoadBalancer.method
    round_robin_counter,\* LoadBalancer.round_robin_counter: AtomicUsize
    request_counter,    \* ProxyManager.request_counter: AtomicU64
    active_connections, \* per member: AtomicUsize
    total_requests,     \* per member: AtomicU64
    \* ---- Router (router.rs:11-24)
    route_config,       \* config.proxy.enabled, config.static_files.enabled, .autoindex
                        \* and whether .cache_control is a legal header value
    routes,             \* Vec<Route>
    file_cache,         \* StaticFileServer.file_cache: the paths of the cached files
    \* ---- history of the run, read by the properties only
    streak,             \* per member: how many probes failed since the last success
    overlapped,         \* per member: a probe was spawned while another was running
    forwards,           \* how many forward_request calls were started, up to MaxForwards
    picks,              \* the members LoadBalancer::select returned, in the order of its calls
    dropped,            \* per member: how many forwards were dropped while awaiting the outbound call
    routes_added,       \* how many add_route calls were made
    limiters_created,   \* per IP: how many token buckets were ever constructed for it
    block_promise,      \* per IP: the latest t + D of the blocks created since the last unblock_ip
    ceiling_promise,    \* per IP: the same, for the TooManyConnections blocks alone
    ticket,             \* how many check_request calls were started, up to MaxTickets
    admitted            \* how many of the counted calls returned allowed

rl_vars == <<config, ddos_config, global_limiter, per_ip_limiters, blocked_ips,
             connection_counts, cc_writer, now, pc, call, last>>
hist_vars == <<limiters_created, block_promise, ceiling_promise, ticket>>
\* what the health checking leaves alone
rl_state == <<config, ddos_config, global_limiter, per_ip_limiters, blocked_ips,
              connection_counts, cc_writer, now, pc, call>>
\* what the admission controller leaves alone: the health checking, the
\* forwarding and the router
hc_vars == <<upstreams, health_check, healthy, current_fails, last_health_check,
             probes, stamping, streak, overlapped>>
fw_vars == <<load_balancing, round_robin_counter, request_counter, active_connections,
             total_requests, forwards, picks, dropped>>
rt_vars == <<route_config, routes, file_cache, routes_added>>
px_vars == <<hc_vars, fw_vars, rt_vars>>
\* what the forwarding and the router leave alone of the admission controller
rl_data == <<config, ddos_config, global_limiter, per_ip_limiters, blocked_ips,
             connection_counts, cc_writer, now>>
vars == <<rl_vars, hist_vars, admitted, px_vars>>

-----------------------------------------------------------------------------
(* Bounds of the model *)

\* at most this many connects of one IP are tracked at once
MaxConnects == 2
\* block_count is followed up to this value
MaxBlockCount == 2
\* the largest burst a configuration sets
MaxBurst == 2
\* the calls of a burst are counted up to this
MaxTickets == 4
\* the largest max_fails a member is configured with
MaxFails == 3
\* current_fails is followed up to this value
MaxFailCount == 4
\* at most this many probes of one member run at once
MaxProbes == 2
\* the largest weight a member is configured with
MaxWeight == 2
\* at most this many forward_request calls are started
MaxForwards == 4
\* at most this many add_route calls are made
MaxAdded == 2

(* Program constants *)
SizeBlockSecs == 300
GlobalRetrySecs == 60
PerIpRetrySecs == 60
ConnBlockSecs == 600
DdosBlockSecs == 1800
RateWindowSecs == 60
DdosRetrySecs == 60
TrackerIdleSecs == 3600
LimiterTableCap == 10000
SecsPerMinute == 60

Tasks == {"t1", "t2"}
IPs == {"10.0.0.1", "10.0.0.2"}
\* the clients whose connections are tracked
TrackedIPs == {"10.0.0.1"}
NoTask == "-"
NoSize == -1
NoDuration == -1
NoRemaining == -1
\* the instants at which the clock is read: each duration of the program, counted
\* from the start and from one minute later, ends at one of them or between two
Instants == {0, 300, 900}

Max(a, b) == IF a >= b THEN a ELSE b

-----------------------------------------------------------------------------
(* Configuration *)

\* str::parse::<IpAddr>: the address an entry of a list denotes, "" when it does not parse
ParseIp(ip_str) == IF ip_str \in IPs THEN ip_str ELSE ""

RateLimitConfigs ==
    [enabled : BOOLEAN,
     requests_per_minute : {1},
     burst : 1..MaxBurst,
     max_request_size : {1024},
     whitelist : {<<>>, <<"not-an-ip", "10.0.0.1">>},
     blacklist : {<<>>, <<"10.0.0.1">>},
     auto_block_enabled : BOOLEAN,
     block_duration : {60}]

DdosConfigs ==
    [enabled : BOOLEAN,
     max_connections_per_ip : {1},
     connection_rate_limit : {1}]

\* a variant that stops at the first entry of the list
is_whitelisted_first_entry(client_ip) ==
    /\ Len(config.whitelist) > 0
    /\ ParseIp(config.whitelist[1]) = client_ip

is_whitelisted(client_ip) ==
    \E i \in 1..Len(config.whitelist) : ParseIp(config.whitelist[i]) = client_ip

\* a variant that looks the address up in the other list
is_blacklisted_other_list(client_ip) == is_whitelisted(client_ip)

is_blacklisted(client_ip) ==
    \E i \in 1..Len(config.blacklist) : ParseIp(config.blacklist[i]) = client_ip

-----------------------------------------------------------------------------
(* Token buckets: governor's GCRA over Quota::per_minute(r).allow_burst(b) *)

\* Quota::per_minute: one cell is replenished every 60/r seconds
ReplenishInterval == SecsPerMinute \div config.requests_per_minute
\* a variant with one cell too many
BurstToleranceOneMore == ReplenishInterval * (config.burst + 1)
\* the burst tolerance: allow_burst(b) cells
BurstTolerance == ReplenishInterval * config.burst

\* DefaultDirectRateLimiter::new(quota): no arrival recorded yet (tat = 0).
\* The limiter keeps its theoretical arrival time relative to its creation; the
\* model keeps it on the common clock, which decides the same.
NewLimiter(id) == [id |-> id, tat |-> 0]

\* the arrival time a check at time t works from
LimiterTat(l, t) == IF l.tat = 0 THEN t + ReplenishInterval ELSE l.tat

\* limiter.check() at time t: is the cell conforming
LimiterConforms(l, t) == ~(t < LimiterTat(l, t) - BurstTolerance)

\* limiter.check() at time t: the limiter afterwards
LimiterAfter(l, t) ==
    IF LimiterConforms(l, t)
    THEN [l EXCEPT !.tat = Max(LimiterTat(l, t), t) + ReplenishInterval]
    ELSE l

-----------------------------------------------------------------------------
(* Results *)

Result(allowed, reason, retry_after, remaining) ==
    [allowed |-> allowed, reason |-> reason,
     retry_after |-> retry_after, remaining |-> remaining]

NoResult == Result(FALSE, "-", NoDuration, NoRemaining)
\* the bool of track_connection and unblock_ip
BoolResult(b) == Result(b, "bool", NoDuration, NoRemaining)
\* the unit of cleanup_expired
UnitResult == Result(TRUE, "unit", NoDuration, NoRemaining)

\* a call: its arguments; the instant it read the clock (cleanup_expired); the block
\* it is about to create (track_connection); the limiter that decided it; and, from
\* the history, what was promised when it looked up the block table, its number
\* among the calls and how many had been admitted before it
NoCall == [op |-> "-", ip |-> "", size |-> NoSize, connected |-> FALSE,
           at |-> 0, why |-> "-", bucket |-> 0,
           promised |-> FALSE, ceiling |-> FALSE, seq |-> 0, prior |-> 0,
           \* forward_request: the pool name asked for, the member list position
           \* select_upstream reads next, the healthy members it has collected,
           \* the member it selected; from the history, whether at some instant
           \* since the call began no member was healthy
           pool |-> "", scan |-> 0, seen |-> <<>>, member |-> 0, down |-> FALSE,
           \* least-connections: the member with the fewest connections so far and
           \* how many they are; from the history, the counts that were loaded and
           \* the members that were the least connected at some instant of the
           \* selection
           best |-> 0, fewest |-> 0, loads |-> <<>>, mins |-> {},
           \* route_request: the method, path and host of the request, the
           \* place in the table of the route it matched, and whether the file
           \* server serves the index file of a directory
           method |-> "", path |-> <<>>, host |-> <<>>, route |-> 0, index |-> 0]

Call(op, ip, size, connected) ==
    [NoCall EXCEPT !.op = op, !.ip = ip, !.size = size, !.connected = connected]

NoLast == [task |-> NoTask, call |-> NoCall, ret |-> NoResult]

\* task t returns r from call c: it is idle again and the result can be read
Return(t, c, r) ==
    /\ pc' = [pc EXCEPT ![t] = "idle"]
    /\ call' = [call EXCEPT ![t] = NoCall]
    /\ last' = [task |-> t, call |-> c, ret |-> r]
    /\ admitted' = IF c.op = "check_request" /\ c.seq > 0 /\ r.allowed
                   THEN admitted + 1 ELSE admitted

\* task t goes on with call c to its next access of shared data
Goto(t, c, label) ==
    /\ pc' = [pc EXCEPT ![t] = label]
    /\ call' = [call EXCEPT ![t] = c]
    /\ last' = NoLast
    /\ UNCHANGED admitted

-----------------------------------------------------------------------------
(* block_ip *)

\* a get_stats holds the blocked_ips read lock while it awaits connection_counts
\* and then per_ip_limiters
StatsReading == \E t \in Tasks : pc[t] \in {"gs_counts", "gs_limiters"}

\* a get_stats holds the connection_counts read lock while it awaits per_ip_limiters
CountsReading == \E t \in Tasks : pc[t] = "gs_limiters"

\* connection_counts.write() is granted: no write guard and no read guard is held
CountsWriteFree == cc_writer = NoTask /\ ~CountsReading

\* blocked_ips.write() is granted: no read guard is held
BlockWriteFree == ~StatsReading

BlockCount(ip) == IF ip \in DOMAIN blocked_ips THEN blocked_ips[ip].block_count ELSE 0

\* the block table after block_ip(client_ip, reason, duration)
BlockIp(client_ip, reason, duration) ==
    [ip \in DOMAIN blocked_ips \cup {client_ip} |->
        IF ip = client_ip
        THEN [blocked_until |-> now + duration,
              reason |-> reason,
              block_count |-> BlockCount(client_ip) + 1]
        ELSE blocked_ips[ip]]

\* the history kept beside a block_ip
NoteBlock(client_ip, reason, duration) ==
    /\ block_promise' = [block_promise EXCEPT
                           ![client_ip] = Max(@, now + duration)]
    /\ ceiling_promise' = [ceiling_promise EXCEPT
                           ![client_ip] = IF reason = "TooManyConnections"
                                          THEN Max(@, now + duration) ELSE @]

\* HashMap::new() and HashMap::remove
EmptyMap == [k \in {} |-> 0]
Remove(map, key) == [k \in DOMAIN map \ {key} |-> map[k]]

-----------------------------------------------------------------------------
(* The upstreams and their health checking (proxy.rs) *)

UpstreamConfigs == [name : {"a", "b"}, weight : 0..MaxWeight, max_fails : 1..MaxFails]

\* the member lists a proxy is configured with
UpstreamLists ==
    {<<>>} \cup {<<c>> : c \in {u \in UpstreamConfigs : u.name = "a"}}
           \cup {<<c, d>> : c \in {u \in UpstreamConfigs : u.name = "a"},
                            d \in {u \in UpstreamConfigs : u.name = "b"}}

HealthCheckConfigs == [enabled : BOOLEAN]

\* config.rs: LoadBalancingMethod
LoadBalancingMethods == {"RoundRobin", "LeastConnections", "Random", "Weighted", "IpHash"}

Members == 1..Len(upstreams)

\* where a spawned probe stands: at check_upstream_health; after fetch_add, at
\* the load of current_fails; at healthy.store(false); after current_fails.store(0),
\* at the load of healthy; at healthy.store(true); at the write of last_health_check
ProbePcs == {"check", "fail_load", "mark_unhealthy", "ok_load", "mark_healthy", "stamp"}

RECURSIVE Stamping(_, _)
\* the probes of member u that have read one of the instants and await the
\* write lock of last_health_check
Stamping(u, instants) ==
    IF instants = {} THEN 0
    ELSE LET i == CHOOSE j \in instants : TRUE
         IN stamping[u][i] + Stamping(u, instants \ {i})

\* the probes of member u that have been spawned and have not finished
InFlight(u) ==
    probes[u]["check"] + probes[u]["fail_load"] + probes[u]["mark_unhealthy"]
      + probes[u]["ok_load"] + probes[u]["mark_healthy"] + probes[u]["stamp"]
      + Stamping(u, Instants)

\* a variant in which a probe moves only when no probe of a member before it
\* in the list is still at check_upstream_health, as if the round awaited its
\* probes one after the other
MoveInTurn(u, from, to) ==
    /\ \A v \in 1..(u - 1) : probes[v]["check"] = 0
    /\ probes' = [probes EXCEPT ![u] = [@ EXCEPT ![from] = @ - 1, ![to] = @ + 1]]

\* one probe of member u moves from one position to another
Move(u, from, to) ==
    probes' = [probes EXCEPT ![u] = [@ EXCEPT ![from] = @ - 1, ![to] = @ + 1]]

\* ProxyManager::new: every member healthy, no failure counted, no probe spawned
InitProxy ==
    /\ upstreams \in UpstreamLists
    /\ health_check \in HealthCheckConfigs
    /\ healthy = [u \in Members |-> TRUE]
    /\ current_fails = [u \in Members |-> 0]
    /\ last_health_check = [u \in Members |-> 0]
    /\ probes = [u \in Members |-> [p \in ProbePcs |-> 0]]
    /\ stamping = [u \in Members |-> [i \in Instants |-> 0]]
    /\ streak = [u \in Members |-> 0]
    /\ overlapped = [u \in Members |-> FALSE]
    /\ load_balancing \in LoadBalancingMethods
    /\ round_robin_counter = 0
    /\ request_counter = 0
    /\ active_connections = [u \in Members |-> 0]
    /\ total_requests = [u \in Members |-> 0]
    /\ forwards \in 0..MaxForwards
    /\ picks = <<>>
    /\ dropped = [u \in Members |-> 0]

\* health_check_task: the interval has ticked, one probe is spawned per member
HealthRound ==
    /\ health_check.enabled
    /\ Members # {}
    /\ \A u \in Members : InFlight(u) < MaxProbes
    /\ probes' = [u \in Members |-> [probes[u] EXCEPT !["check"] = @ + 1]]
    /\ overlapped' = [u \in Members |-> overlapped[u] \/ InFlight(u) > 0]
    /\ last' = NoLast
    /\ UNCHANGED <<rl_state, hist_vars, admitted, fw_vars, rt_vars, upstreams, health_check, healthy,
                   current_fails, last_health_check, stamping, streak>>

\* check_upstream_health returned Err: current_fails.fetch_add(1)
ProbeFailed(u) ==
    /\ probes[u]["check"] > 0
    /\ current_fails[u] < MaxFailCount
    /\ current_fails' = [current_fails EXCEPT ![u] = @ + 1]
    /\ streak' = [streak EXCEPT ![u] = @ + 1]
    /\ Move(u, "check", "fail_load")
    /\ last' = NoLast
    /\ UNCHANGED <<rl_state, hist_vars, admitted, fw_vars, rt_vars, upstreams, health_check, healthy,
                   last_health_check, stamping, overlapped>>

\* a variant that compares with > instead of >=
ProbeLoadFailsAbove(u) ==
    /\ probes[u]["fail_load"] > 0
    /\ IF current_fails[u] > upstreams[u].max_fails
       THEN Move(u, "fail_load", "mark_unhealthy")
       ELSE Move(u, "fail_load", "stamp")
    /\ last' = NoLast
    /\ UNCHANGED <<rl_state, hist_vars, admitted, fw_vars, rt_vars, upstreams, health_check, healthy,
                   current_fails, last_health_check, stamping, streak, overlapped>>

\* current_fails.load() >= max_fails
ProbeLoadFails(u) ==
    /\ probes[u]["fail_load"] > 0
    /\ IF current_fails[u] >= upstreams[u].max_fails
       THEN Move(u, "fail_load", "mark_unhealthy")
       ELSE Move(u, "fail_load", "stamp")
    /\ last' = NoLast
    /\ UNCHANGED <<rl_state, hist_vars, admitted, fw_vars, rt_vars, upstreams, health_check, healthy,
                   current_fails, last_health_check, stamping, streak, overlapped>>

\* healthy.store(false)
ProbeMarkUnhealthy(u) ==
    /\ probes[u]["mark_unhealthy"] > 0
    /\ healthy' = [healthy EXCEPT ![u] = FALSE]
    /\ Move(u, "mark_unhealthy", "stamp")
    /\ last' = NoLast
    /\ call' = [t \in Tasks |->
                  IF pc[t] = "fr_scan" /\ \A v \in Members \ {u} : ~healthy[v]
                  THEN [call[t] EXCEPT !.down = TRUE]
                  ELSE call[t]]
    /\ UNCHANGED <<rl_data, pc, hist_vars, admitted, fw_vars, rt_vars, upstreams,
                   health_check, current_fails, last_health_check, stamping, streak, overlapped>>

\* check_upstream_health returned Ok: current_fails.store(0)
ProbeSucceeded(u) ==
    /\ probes[u]["check"] > 0
    /\ current_fails' = [current_fails EXCEPT ![u] = 0]
    /\ streak' = [streak EXCEPT ![u] = 0]
    /\ Move(u, "check", "ok_load")
    /\ last' = NoLast
    /\ UNCHANGED <<rl_state, hist_vars, admitted, fw_vars, rt_vars, upstreams, health_check, healthy,
                   last_health_check, stamping, overlapped>>

\* a variant that finds the flag set whatever it is
ProbeLoadHealthyBlind(u) ==
    /\ probes[u]["ok_load"] > 0
    /\ Move(u, "ok_load", "stamp")
    /\ last' = NoLast
    /\ UNCHANGED <<rl_state, hist_vars, admitted, fw_vars, rt_vars, upstreams, health_check, healthy,
                   current_fails, last_health_check, stamping, streak, overlapped>>

\* !healthy.load()
ProbeLoadHealthy(u) ==
    /\ probes[u]["ok_load"] > 0
    /\ IF ~healthy[u]
       THEN Move(u, "ok_load", "mark_healthy")
       ELSE Move(u, "ok_load", "stamp")
    /\ last' = NoLast
    /\ UNCHANGED <<rl_state, hist_vars, admitted, fw_vars, rt_vars, upstreams, health_check, healthy,
                   current_fails, last_health_check, stamping, streak, overlapped>>

\* healthy.store(true)
ProbeMarkHealthy(u) ==
    /\ probes[u]["mark_healthy"] > 0
    /\ healthy' = [healthy EXCEPT ![u] = TRUE]
    /\ Move(u, "mark_healthy", "stamp")
    /\ last' = NoLast
    /\ UNCHANGED <<rl_state, hist_vars, admitted, fw_vars, rt_vars, upstreams, health_check,
                   current_fails, last_health_check, stamping, streak, overlapped>>

\* *last_health_check.write().await = Instant::now(): the value of the
\* assignment, the instant, is read first; then the probe awaits the write lock
ProbeStamp(u) ==
    /\ probes[u]["stamp"] > 0
    /\ probes' = [probes EXCEPT ![u] = [@ EXCEPT !["stamp"] = @ - 1]]
    /\ stamping' = [stamping EXCEPT ![u] = [@ EXCEPT ![now] = @ + 1]]
    /\ last' = NoLast
    /\ UNCHANGED <<rl_state, hist_vars, admitted, fw_vars, rt_vars, upstreams, health_check, healthy,
                   current_fails, last_health_check, streak, overlapped>>

\* the write lock is granted to a probe that awaits it: the instant it read
\* before the wait is stored, and the probe ends
ProbeStampWrite(u) ==
    /\ \E i \in Instants :
          /\ stamping[u][i] > 0
          /\ last_health_check' = [last_health_check EXCEPT ![u] = i]
          /\ stamping' = [stamping EXCEPT ![u] = [@ EXCEPT ![i] = @ - 1]]
    /\ last' = NoLast
    /\ UNCHANGED <<rl_state, hist_vars, admitted, fw_vars, rt_vars, upstreams, health_check, healthy,
                   current_fails, probes, streak, overlapped>>

-----------------------------------------------------------------------------
(* forward_request (proxy.rs:108-128) *)

\* the pool names a forward is asked for: none, the wildcard, a member, no member
PoolNames == {"", "*", "a", "b", "zz"}

\* the StatusCode results of forward_to_upstream; OK stands for a response of the
\* member, whatever its status
Statuses == {"OK", "BAD_REQUEST", "BAD_GATEWAY", "INTERNAL_SERVER_ERROR"}
StatusResult(status) == Result(status = "OK", status, NoDuration, NoRemaining)
\* the task panicked; the future was dropped
Panicked == Result(FALSE, "panic", NoDuration, NoRemaining)
Dropped == Result(FALSE, "dropped", NoDuration, NoRemaining)

\* upstreams.iter().find(|u| u.config.name == upstream_name)
Named(upstream_name) == {u \in Members : upstreams[u].name = upstream_name}
FirstNamed(upstream_name) ==
    CHOOSE u \in Named(upstream_name) : \A v \in Named(upstream_name) : u <= v

\* a variant that takes no notice of the pool name
SelectUpstreamUnpinned(t, c) ==
    IF Members = {}
    THEN Return(t, c, StatusResult("BAD_GATEWAY"))
    ELSE Goto(t, [c EXCEPT !.scan = 1], "fr_scan")

\* select_upstream up to its first atomic load: a named member that is healthy
\* is returned at once; otherwise the member list is scanned
SelectUpstream(t, c) ==
    IF c.pool # "" /\ c.pool # "*" /\ Named(c.pool) # {}
    THEN IF healthy[FirstNamed(c.pool)]
         THEN Goto(t, [c EXCEPT !.member = FirstNamed(c.pool)], "fr_count")
         ELSE Goto(t, [c EXCEPT !.scan = 1], "fr_scan")
    ELSE IF Members = {}
         THEN Return(t, c, StatusResult("BAD_GATEWAY"))
         ELSE Goto(t, [c EXCEPT !.scan = 1], "fr_scan")

\* forward_request up to the first atomic load of select_upstream; the calls
\* that find members to select from are counted
BeginForward(t, c) ==
    /\ Members # {} => forwards < MaxForwards
    /\ forwards' = IF Members # {} THEN forwards + 1 ELSE forwards
    /\ SelectUpstream(t, [c EXCEPT !.down = \A u \in Members : ~healthy[u]])
    /\ UNCHANGED <<load_balancing, round_robin_counter, request_counter,
                   active_connections, total_requests, picks, dropped>>

ForwardRequest(t, upstream_name) ==
    /\ pc[t] = "idle"
    /\ BeginForward(t, [Call("forward_request", "", NoSize, FALSE) EXCEPT
                          !.pool = upstream_name])
    /\ UNCHANGED <<rl_data, hist_vars, hc_vars, rt_vars>>

\* the filter of select_upstream loads the healthy flag of the next member; after
\* the last member an empty list is the error "No healthy upstreams available"
ScanHealthy(t) ==
    /\ pc[t] = "fr_scan"
    /\ LET u == call[t].scan
           healthy_upstreams == IF healthy[u] THEN Append(call[t].seen, u)
                                              ELSE call[t].seen
           c == [call[t] EXCEPT !.seen = healthy_upstreams, !.scan = u + 1]
       IN IF u < Len(upstreams)
          THEN Goto(t, c, "fr_scan")
          ELSE IF healthy_upstreams = <<>>
               THEN Return(t, c, StatusResult("BAD_GATEWAY"))
               ELSE Goto(t, c, "fr_pick")
    /\ UNCHANGED <<rl_data, hist_vars, hc_vars, rt_vars, fw_vars>>

\* min_by_key on keys that do not change while it runs: the first of the
\* listed members with the fewest connections
LeastConnectedBy(list, counts) ==
    list[CHOOSE i \in 1..Len(list) :
            /\ \A j \in 1..Len(list) : counts[list[i]] <= counts[list[j]]
            /\ \A j \in 1..(i - 1) : counts[list[j]] > counts[list[i]]]

LeastConnected(list) == LeastConnectedBy(list, active_connections)

\* a variant of the comparison that lets the later of two equals win
FewerOrEqual(count, fewest) == count <= fewest

\* min_by_key keeps the member it holds unless the next has a smaller key
Fewer(count, fewest) == count < fewest

\* from the history: the calls of the other tasks, with the least connected
\* member under the new counts noted in each selection that is under way
NotedBeside(t, counts) ==
    [x \in Tasks \ {t} |->
        IF pc[x] = "fr_least"
        THEN [call[x] EXCEPT !.mins = @ \cup {LeastConnectedBy(call[x].seen, counts)}]
        ELSE call[x]]

RECURSIVE TotalWeight(_)
TotalWeight(list) ==
    IF list = <<>> THEN 0 ELSE upstreams[Head(list)].weight + TotalWeight(Tail(list))

\* a variant of the walk that also stops at a member whose weight equals what
\* is left of the target
RECURSIVE WeightedWalkInclusive(_, _, _)
WeightedWalkInclusive(list, i, target) ==
    IF i > Len(list) THEN list[1]
    ELSE IF target <= upstreams[list[i]].weight THEN list[i]
    ELSE WeightedWalkInclusive(list, i + 1, target - upstreams[list[i]].weight)

\* the walk of the weighted method: the first member whose weight exceeds what
\* is left of the target; the first member of the list if there is none
RECURSIVE WeightedWalk(_, _, _)
WeightedWalk(list, i, target) ==
    IF i > Len(list) THEN list[1]
    ELSE IF target < upstreams[list[i]].weight THEN list[i]
    ELSE WeightedWalk(list, i + 1, target - upstreams[list[i]].weight)

\* LoadBalancer::select has chosen member u
Selected(t, u) ==
    /\ picks' = Append(picks, u)
    /\ Goto(t, [call[t] EXCEPT !.member = u], "fr_count")

\* round-robin, were the counter read and advanced by two
RoundRobinSkipping(t, list) ==
    /\ round_robin_counter' = round_robin_counter + 2
    /\ Selected(t, list[((round_robin_counter + 1) % Len(list)) + 1])

\* round-robin: index = round_robin_counter.fetch_add(1); upstreams[index % len]
RoundRobin(t, list) ==
    /\ round_robin_counter' = round_robin_counter + 1
    /\ Selected(t, list[(round_robin_counter % Len(list)) + 1])

\* a hash that keeps a client on one member and leaves the counter alone
IpHashSticky(t, list) ==
    /\ UNCHANGED round_robin_counter
    /\ Selected(t, list[1])

\* IP-hash: "for now, just use round-robin" on the same counter
IpHash(t, list) ==
    /\ round_robin_counter' = round_robin_counter + 1
    /\ Selected(t, list[(round_robin_counter % Len(list)) + 1])

\* LoadBalancer::select on the healthy members collected.  (The counter stays
\* far below the width of usize within MaxForwards calls.)
PickUpstream(t) ==
    /\ pc[t] = "fr_pick"
    /\ LET healthy_upstreams == call[t].seen IN
        CASE load_balancing = "RoundRobin" ->
                RoundRobin(t, healthy_upstreams)
          [] load_balancing = "IpHash" ->
                IpHash(t, healthy_upstreams)
          [] load_balancing = "LeastConnections" ->
                \* the key of the first member is loaded
                /\ LET u == healthy_upstreams[1]
                       c == [call[t] EXCEPT !.best = u,
                                            !.fewest = active_connections[u],
                                            !.loads = <<active_connections[u]>>,
                                            !.mins = {LeastConnected(healthy_upstreams)},
                                            !.scan = 2]
                   IN IF Len(healthy_upstreams) = 1
                      THEN /\ picks' = Append(picks, u)
                           /\ Goto(t, [c EXCEPT !.member = u], "fr_count")
                      ELSE /\ Goto(t, c, "fr_least")
                           /\ UNCHANGED picks
                /\ UNCHANGED round_robin_counter
          [] load_balancing = "Random" ->
                /\ \E i \in 1..Len(healthy_upstreams) : Selected(t, healthy_upstreams[i])
                /\ UNCHANGED round_robin_counter
          [] load_balancing = "Weighted" ->
                /\ round_robin_counter' = round_robin_counter + 1
                /\ IF TotalWeight(healthy_upstreams) = 0
                   THEN /\ Return(t, call[t], Panicked)
                        /\ UNCHANGED picks
                   ELSE Selected(t, WeightedWalk(healthy_upstreams, 1,
                            round_robin_counter % TotalWeight(healthy_upstreams)))
    /\ UNCHANGED <<rl_data, hist_vars, hc_vars, rt_vars, load_balancing,
                   request_counter, active_connections, total_requests, forwards,
                   dropped>>

\* min_by_key loads the active_connections of the next member and compares it
\* with the fewest so far; after the last member the one it holds is selected
LoadConnections(t) ==
    /\ pc[t] = "fr_least"
    /\ LET u == call[t].seen[call[t].scan]
           count == active_connections[u]
           less == Fewer(count, call[t].fewest)
           c == [call[t] EXCEPT !.best = IF less THEN u ELSE @,
                                !.fewest = IF less THEN count ELSE @,
                                !.loads = Append(@, count),
                                !.scan = @ + 1]
       IN IF call[t].scan < Len(call[t].seen)
          THEN /\ Goto(t, c, "fr_least")
               /\ UNCHANGED picks
          ELSE /\ picks' = Append(picks, c.best)
               /\ Goto(t, [c EXCEPT !.member = c.best], "fr_count")
    /\ UNCHANGED <<rl_data, hist_vars, hc_vars, rt_vars, load_balancing,
                   round_robin_counter, request_counter, active_connections,
                   total_requests, forwards, dropped>>

\* a variant that counts the request of every second call only
CountRequestEverySecond(t) ==
    /\ pc[t] = "fr_count"
    /\ request_counter' = request_counter + (forwards % 2)
    /\ Goto(t, call[t], "fr_total")
    /\ UNCHANGED <<rl_data, hist_vars, hc_vars, rt_vars, load_balancing,
                   round_robin_counter, active_connections, total_requests,
                   forwards, picks, dropped>>

\* request_counter.fetch_add(1)
CountRequest(t) ==
    /\ pc[t] = "fr_count"
    /\ request_counter' = request_counter + 1
    /\ Goto(t, call[t], "fr_total")
    /\ UNCHANGED <<rl_data, hist_vars, hc_vars, rt_vars, load_balancing,
                   round_robin_counter, active_connections, total_requests,
                   forwards, picks, dropped>>

\* upstream.total_requests.fetch_add(1)
CountMember(t) ==
    /\ pc[t] = "fr_total"
    /\ total_requests' = [total_requests EXCEPT ![call[t].member] = @ + 1]
    /\ Goto(t, call[t], "fr_open")
    /\ UNCHANGED <<rl_data, hist_vars, hc_vars, rt_vars, load_balancing,
                   round_robin_counter, request_counter, active_connections,
                   forwards, picks, dropped>>

\* upstream.active_connections.fetch_add(1); forward_to_upstream is awaited
OpenConnection(t) ==
    /\ pc[t] = "fr_open"
    /\ active_connections' = [active_connections EXCEPT ![call[t].member] = @ + 1]
    /\ pc' = [pc EXCEPT ![t] = "fr_await"]
    /\ call' = [x \in Tasks |-> IF x = t THEN call[t]
                                ELSE NotedBeside(t, active_connections')[x]]
    /\ last' = NoLast
    /\ UNCHANGED admitted
    /\ UNCHANGED <<rl_data, hist_vars, hc_vars, rt_vars, load_balancing,
                   round_robin_counter, request_counter, total_requests,
                   forwards, picks, dropped>>

\* a variant that counts a failed forward against the member, as a failed
\* probe is counted
ForwardDoneCountingFails(t, status) ==
    /\ pc[t] = "fr_await"
    /\ active_connections' = [active_connections EXCEPT ![call[t].member] = @ - 1]
    /\ current_fails' = IF status = "OK" THEN current_fails
                        ELSE [current_fails EXCEPT ![call[t].member] =
                                 IF @ < MaxFailCount THEN @ + 1 ELSE @]
    /\ healthy' = IF status = "OK" THEN healthy
                  ELSE [healthy EXCEPT ![call[t].member] = FALSE]
    /\ pc' = [pc EXCEPT ![t] = "idle"]
    /\ call' = [x \in Tasks |-> IF x = t THEN NoCall
                                ELSE NotedBeside(t, active_connections')[x]]
    /\ last' = [task |-> t, call |-> call[t], ret |-> StatusResult(status)]
    /\ UNCHANGED admitted
    /\ UNCHANGED <<rl_data, hist_vars, rt_vars, load_balancing,
                   round_robin_counter, request_counter, total_requests,
                   forwards, picks, dropped, upstreams, health_check,
                   last_health_check, stamping, probes, streak, overlapped>>

\* forward_to_upstream has returned, a response or an error:
\* upstream.active_connections.fetch_sub(1)
ForwardDone(t, status) ==
    /\ pc[t] = "fr_await"
    /\ active_connections' = [active_connections EXCEPT ![call[t].member] = @ - 1]
    /\ pc' = [pc EXCEPT ![t] = "idle"]
    /\ call' = [x \in Tasks |-> IF x = t THEN NoCall
                                ELSE NotedBeside(t, active_connections')[x]]
    /\ last' = [task |-> t, call |-> call[t], ret |-> StatusResult(status)]
    /\ UNCHANGED admitted
    /\ UNCHANGED <<rl_data, hist_vars, hc_vars, rt_vars, load_balancing,
                   round_robin_counter, request_counter, total_requests,
                   forwards, picks, dropped>>

\* the future of forward_request is dropped while it awaits forward_to_upstream
\* (the server drops the handler of a request whose client has gone): nothing
\* after the await runs
ForwardDropped(t) ==
    /\ pc[t] = "fr_await"
    /\ dropped' = [dropped EXCEPT ![call[t].member] = @ + 1]
    /\ Return(t, call[t], Dropped)
    /\ UNCHANGED <<rl_data, hist_vars, hc_vars, rt_vars, load_balancing,
                   round_robin_counter, request_counter, active_connections,
                   total_requests, forwards, picks>>

-----------------------------------------------------------------------------

(* The router (router.rs) *)

\* Strings are sequences of characters; an Option is a sequence of no or one
\* element.
HealthPath == <<"/", "h", "e", "a", "l", "t", "h">>
AnyPath == <<"/", "*">>
None == <<>>
Some(x) == <<x>>

\* str::ends_with, str::starts_with, str::contains
EndsWith(s, suffix) ==
    Len(s) >= Len(suffix) /\ SubSeq(s, Len(s) - Len(suffix) + 1, Len(s)) = suffix
StartsWith(s, prefix) ==
    Len(s) >= Len(prefix) /\ SubSeq(s, 1, Len(prefix)) = prefix
Contains(s, ch) == \E i \in 1..Len(s) : s[i] = ch

\* str::split('/'): the parts between the slashes, empty parts included
RECURSIVE Split(_)
Split(s) ==
    IF ~Contains(s, "/") THEN <<s>>
    ELSE LET i == CHOOSE k \in 1..Len(s) : s[k] = "/" /\ \A j \in 1..(k - 1) : s[j] # "/"
         IN <<SubSeq(s, 1, i - 1)>> \o Split(SubSeq(s, i + 1, Len(s)))

pattern_matches(pattern, path) ==
    IF pattern = path THEN TRUE
    ELSE IF EndsWith(pattern, <<"/", "*">>)
    THEN StartsWith(path, SubSeq(pattern, 1, Len(pattern) - 2))
    ELSE IF Contains(pattern, ":")
    THEN LET pattern_parts == Split(pattern)
             path_parts == Split(path)
         IN /\ Len(pattern_parts) = Len(path_parts)
            /\ \A i \in 1..Len(pattern_parts) :
                  StartsWith(pattern_parts[i], <<":">>) \/ pattern_parts[i] = path_parts[i]
    ELSE FALSE

\* a variant that does not look at the method
route_matches_any_method(route, path, method, host) ==
    /\ route.host_pattern # None =>
          host # None /\ pattern_matches(route.host_pattern[1], host[1])
    /\ pattern_matches(route.path_pattern, path)

route_matches(route, path, method, host) ==
    /\ route.methods = {} \/ method \in route.methods
    /\ route.host_pattern # None =>
          host # None /\ pattern_matches(route.host_pattern[1], host[1])
    /\ pattern_matches(route.path_pattern, path)

\* a Route; nth is not a field of the program: it numbers the routes in the
\* order of their insertion
Route(path, host, methods, kind, upstream_name, priority, nth) ==
    [path_pattern |-> path, host_pattern |-> host, methods |-> methods,
     handler |-> [kind |-> kind, upstream_name |-> upstream_name],
     priority |-> priority, nth |-> nth]

\* a variant of the insertion that puts a route before the routes of its priority
InsertBeforeEquals(sorted, route) ==
    LET k == Cardinality({i \in 1..Len(sorted) : sorted[i].priority > route.priority})
    IN SubSeq(sorted, 1, k) \o <<route>> \o SubSeq(sorted, k + 1, Len(sorted))

\* a route joins a sorted table behind the routes of its priority or higher
InsertSorted(sorted, route) ==
    LET k == Cardinality({i \in 1..Len(sorted) : sorted[i].priority >= route.priority})
    IN SubSeq(sorted, 1, k) \o <<route>> \o SubSeq(sorted, k + 1, Len(sorted))

\* routes.sort_by(|a, b| b.priority.cmp(&a.priority)): the stable sort of the
\* slice, higher priority first
RECURSIVE SortByPriority(_)
SortByPriority(list) ==
    IF list = <<>> THEN <<>>
    ELSE InsertSorted(SortByPriority(SubSeq(list, 1, Len(list) - 1)), list[Len(list)])

RouterConfigs ==
    [proxy_enabled : BOOLEAN, static_enabled : BOOLEAN, autoindex : BOOLEAN,
     cache_control_legal : BOOLEAN]

\* the routes Router::new pushes before it sorts them
ConfiguredRoutes ==
    LET proxy == IF route_config.proxy_enabled
                 THEN [u \in Members |->
                         Route(AnyPath, None, {}, "Proxy", upstreams[u].name, 50, 1 + u)]
                 ELSE <<>>
        static == IF route_config.static_enabled
                  THEN <<Route(AnyPath, None, {"GET", "HEAD"}, "Static", "", 10,
                               2 + Len(proxy))>>
                  ELSE <<>>
    IN <<Route(HealthPath, None, {"GET"}, "Health", "", 100, 1)>> \o proxy \o static

\* Router::new
InitRouter ==
    /\ route_config \in RouterConfigs
    /\ routes = SortByPriority(ConfiguredRoutes)
    /\ routes_added = 0
    /\ file_cache = {}

\* the frame of the steps of the router
RouterFrame == UNCHANGED <<rl_data, hist_vars, hc_vars, fw_vars, pc, call, admitted>>

\* add_route, were the table left as pushed
AddRouteUnsorted(path, host, methods, upstream, priority) ==
    /\ routes_added < MaxAdded
    /\ \A t \in Tasks : pc[t] = "idle"
    /\ routes' = Append(routes, Route(path, host, methods, "Proxy", upstream, priority,
                                      Len(ConfiguredRoutes) + routes_added + 1))
    /\ routes_added' = routes_added + 1
    /\ last' = NoLast
    /\ UNCHANGED <<route_config, file_cache>>
    /\ RouterFrame

\* add_route; it takes &mut self, so no route_request runs beside it
AddRoute(path, host, methods, upstream, priority) ==
    /\ routes_added < MaxAdded
    /\ \A t \in Tasks : pc[t] = "idle"
    /\ routes' = SortByPriority(
                    Append(routes, Route(path, host, methods, "Proxy", upstream, priority,
                                         Len(ConfiguredRoutes) + routes_added + 1)))
    /\ routes_added' = routes_added + 1
    /\ last' = NoLast
    /\ UNCHANGED <<route_config, file_cache>>
    /\ RouterFrame

\* routes.retain(..): the routes of this path and host leave the table
Retained(path, host) ==
    SelectSeq(routes, LAMBDA route :
        ~(route.path_pattern = path /\ route.host_pattern = host))

RemoveRoute(path, host) ==
    /\ \A t \in Tasks : pc[t] = "idle"
    /\ routes' = Retained(path, host)
    /\ routes' # routes
    /\ last' = NoLast
    /\ UNCHANGED <<route_config, file_cache, routes_added>>
    /\ RouterFrame

\* the places in the table of the routes that match the request
Matching(path, method, host) ==
    {i \in 1..Len(routes) : route_matches(routes[i], path, method, host)}

\* the route route_request finds: the first in table order that matches, 0 if
\* there is none
FirstMatch(path, method, host) ==
    IF \A i \in 1..Len(routes) : ~route_matches(routes[i], path, method, host) THEN 0
    ELSE CHOOSE i \in 1..Len(routes) :
            /\ route_matches(routes[i], path, method, host)
            /\ \A j \in 1..(i - 1) : ~route_matches(routes[j], path, method, host)

\* the call returned Err
Failed == Result(FALSE, "Err", NoDuration, NoRemaining)

\* sanitize_path: a component of the path is the parent directory, ".."
Traverses(path) ==
    \E i \in 1..(Len(path) - 1) :
        /\ path[i] = "." /\ path[i + 1] = "."
        /\ i = 1 \/ path[i - 1] = "/"
        /\ i + 1 = Len(path) \/ path[i + 2] = "/"

\* the key of the cache, path.to_string_lossy(): the path of the file under
\* the root, which is the request path without its leading slashes
\* (sanitize_path), joined for a directory with the name of its index file,
\* the first or the second of index_files (Path::join puts a separator in
\* unless the directory path is empty or ends with one)
CacheKey(c) ==
    LET index_files == << <<"i", "n", "d", "e", "x", ".", "h", "t", "m", "l">>,
                          <<"i", "n", "d", "e", "x", ".", "h", "t", "m">> >>
        named == {i \in 1..Len(c.path) : c.path[i] # "/"}
        safe_path == IF named = {} THEN <<>>
                     ELSE SubSeq(c.path, CHOOSE i \in named : \A j \in named : i <= j,
                                 Len(c.path))
        separator == IF safe_path = <<>> \/ safe_path[Len(safe_path)] = "/"
                     THEN <<>> ELSE <<"/">>
    IN IF c.index = 0 THEN safe_path
       ELSE safe_path \o separator \o index_files[c.index]

\* get_cached_file up to its first await, file_cache.read(): the modification
\* time of the file is read, or cannot be
GetCachedFile(t, c) ==
    \/ Return(t, c, Failed)
    \/ Goto(t, c, "sf_lookup")

\* serve_directory_listing: the entries of the directory are listed, or cannot
\* be read
ServeDirectoryListing(t, c) ==
    \E answer \in {StatusResult("OK"), Failed} : Return(t, c, answer)

\* serve_file up to the first await of get_cached_file.  A disabled server
\* answers NOT_FOUND and a path that climbs out of the root is an error; a
\* path that is not there is NOT_FOUND; a directory is listed under autoindex
\* and answered with its index file otherwise, NOT_FOUND when it has none.
\* What the file system holds at the path is the environment's: nothing, a
\* file, a directory without an index file, a directory whose first index
\* file is the first or the second of index_files; it does not change between
\* the two looks serve_file has at the path
ServeFile(t, c) ==
    IF ~route_config.static_enabled THEN Return(t, c, StatusResult("NOT_FOUND"))
    ELSE IF Traverses(c.path) THEN Return(t, c, Failed)
    ELSE \E entry \in {"none", "file", "dir"}, index \in 0..2 :
            CASE entry = "none" -> index = 0 /\ Return(t, c, StatusResult("NOT_FOUND"))
              [] entry = "file" -> index = 0 /\ GetCachedFile(t, c)
              [] entry = "dir" ->
                    IF route_config.autoindex
                    THEN index = 0 /\ ServeDirectoryListing(t, c)
                    ELSE IF index = 0 THEN Return(t, c, StatusResult("NOT_FOUND"))
                    ELSE GetCachedFile(t, [c EXCEPT !.index = index])

\* serve_file from the return of get_cached_file on: an index file is sent
\* with its type and length; a file is not modified by the conditional headers
\* of the request, or it is sent with the configured cache-control header,
\* and the response cannot be built when that is not a legal header value
Respond(t) ==
    IF call[t].index # 0 THEN Return(t, call[t], StatusResult("OK"))
    ELSE \/ Return(t, call[t], StatusResult("NOT_MODIFIED"))
         \/ Return(t, call[t], IF route_config.cache_control_legal
                               THEN StatusResult("OK") ELSE Failed)

\* file_cache.read() is granted.  A file that is cached and not modified since
\* is answered from the cache; otherwise it is read from the disk, or cannot
\* be, and get_cached_file awaits file_cache.write()
GetCachedFileLookup(t) ==
    /\ pc[t] = "sf_lookup"
    /\ \/ CacheKey(call[t]) \in file_cache /\ Respond(t)
       \/ Return(t, call[t], Failed)
       \/ Goto(t, call[t], "sf_insert")
    /\ UNCHANGED <<rl_data, hist_vars, hc_vars, fw_vars, rt_vars>>

\* file_cache.write() is granted: the file is cached and the answer is built
GetCachedFileInsert(t) ==
    /\ pc[t] = "sf_insert"
    /\ file_cache' = file_cache \cup {CacheKey(call[t])}
    /\ Respond(t)
    /\ UNCHANGED <<rl_data, hist_vars, hc_vars, fw_vars, route_config, routes, routes_added>>

\* proxy_manager.forward_request(req, upstream_name, peer_addr): the forward
\* of the upstream manager to the pool of the route
RouteForward(t, c) == BeginForward(t, c)

\* route_request with handle_route, up to its first await: the health and the
\* admin handler answer OK, the static handler goes to the file server, the
\* proxy handler forwards to the pool of the route, and no route is NOT_FOUND
RouteRequest(t, method, path, host) ==
    /\ pc[t] = "idle"
    /\ \E i \in {FirstMatch(path, method, host)} :
       LET c == [Call("route_request", "", NoSize, FALSE) EXCEPT
                   !.method = method, !.path = path, !.host = host, !.route = i]
       IN IF i = 0
          THEN Return(t, c, StatusResult("NOT_FOUND")) /\ UNCHANGED fw_vars
          ELSE CASE routes[i].handler.kind \in {"Health", "Admin"} ->
                      Return(t, c, StatusResult("OK")) /\ UNCHANGED fw_vars
                 [] routes[i].handler.kind = "Static" ->
                      /\ ServeFile(t, c)
                      /\ UNCHANGED fw_vars
                 [] routes[i].handler.kind = "Proxy" ->
                      RouteForward(t, [c EXCEPT !.pool = routes[i].handler.upstream_name])
    /\ UNCHANGED <<rl_data, hist_vars, hc_vars, rt_vars>>

-----------------------------------------------------------------------------

Init ==
    /\ config \in RateLimitConfigs
    /\ ddos_config \in DdosConfigs
    /\ now = 0
    /\ global_limiter = NewLimiter(0)
    /\ per_ip_limiters = EmptyMap
    /\ blocked_ips = EmptyMap
    /\ connection_counts = EmptyMap
    /\ cc_writer = NoTask
    /\ pc = [t \in Tasks |-> "idle"]
    /\ call = [t \in Tasks |-> NoCall]
    /\ last = NoLast
    /\ limiters_created = [ip \in IPs |-> 0]
    /\ block_promise = [ip \in IPs |-> 0]
    /\ ceiling_promise = [ip \in IPs |-> 0]
    /\ ticket \in {0, MaxTickets}
    /\ admitted = 0
    /\ InitProxy
    /\ InitRouter

-----------------------------------------------------------------------------
(* check_request *)

RequestSizes == {NoSize, config.max_request_size, config.max_request_size + 1}

\* check_blocked_ip, were a record still blocking at the instant blocked_until
ActiveBlockAtExpiry(client_ip) ==
    client_ip \in DOMAIN blocked_ips /\ now <= blocked_ips[client_ip].blocked_until

\* check_blocked_ip: the unexpired block of client_ip, if it has one
ActiveBlock(client_ip) ==
    client_ip \in DOMAIN blocked_ips /\ now < blocked_ips[client_ip].blocked_until

\* the switch of the configuration, were it never read
AdmissionDisabledNever == FALSE

\* admission control is switched off in the configuration
AdmissionDisabled == ~config.enabled

\* the block table after the first step, were check_blocked_ip to run before the
\* early returns
CheckedBlockTableFirst(client_ip) ==
    IF ActiveBlock(client_ip) THEN blocked_ips ELSE Remove(blocked_ips, client_ip)

\* the block table after the first step of check_request: check_blocked_ip, when
\* it is reached and finds no unexpired block, removes the record of client_ip
CheckedBlockTable(client_ip) ==
    IF \/ AdmissionDisabled
       \/ is_whitelisted(client_ip)
       \/ is_blacklisted(client_ip)
       \/ ActiveBlock(client_ip)
    THEN blocked_ips
    ELSE Remove(blocked_ips, client_ip)

\* check_request up to and including check_blocked_ip
CheckRequest(t, client_ip, request_size) ==
    /\ pc[t] = "idle"
    /\ ~(AdmissionDisabled \/ is_whitelisted(client_ip) \/ is_blacklisted(client_ip))
          => BlockWriteFree
    /\ ticket' = IF ticket < MaxTickets THEN ticket + 1 ELSE ticket
    /\ blocked_ips' = CheckedBlockTable(client_ip)
    /\ LET c == [Call("check_request", client_ip, request_size, FALSE) EXCEPT
                   !.promised = now < block_promise[client_ip],
                   !.ceiling = now < ceiling_promise[client_ip],
                   !.seq = IF ticket < MaxTickets THEN ticket + 1 ELSE 0,
                   !.prior = admitted]
       IN IF AdmissionDisabled
          THEN Return(t, c, Result(TRUE, "Allowed", NoDuration, NoRemaining))
          ELSE IF is_whitelisted(client_ip)
          THEN Return(t, c, Result(TRUE, "Whitelisted", NoDuration, NoRemaining))
          ELSE IF is_blacklisted(client_ip)
          THEN Return(t, c, Result(FALSE, "Blacklisted", NoDuration, 0))
          ELSE IF ActiveBlock(client_ip)
          THEN Return(t, c, Result(FALSE, "Blocked",
                                   blocked_ips[client_ip].blocked_until - now, 0))
          ELSE Goto(t, c, "cr_limits")
    /\ UNCHANGED <<px_vars, config, ddos_config, global_limiter, per_ip_limiters,
                   connection_counts, cc_writer, now,
                   limiters_created, block_promise, ceiling_promise>>

\* the request size rule, were a request of the maximal size to break it
OversizedAtMax(c) == c.size # NoSize /\ c.size >= config.max_request_size

\* the request size rule
Oversized(c) == c.size # NoSize /\ c.size > config.max_request_size

\* check_request from the size rule up to and including the global bucket
CheckRequestLimits(t) ==
    /\ pc[t] = "cr_limits"
    /\ IF Oversized(call[t])
       THEN /\ BlockCount(call[t].ip) < MaxBlockCount
            /\ BlockWriteFree
            /\ blocked_ips' = BlockIp(call[t].ip, "RateLimit", SizeBlockSecs)
            /\ NoteBlock(call[t].ip, "RateLimit", SizeBlockSecs)
            /\ Return(t, call[t], Result(FALSE, "RateLimit", SizeBlockSecs, 0))
            /\ UNCHANGED global_limiter
       ELSE /\ global_limiter' = LimiterAfter(global_limiter, now)
            /\ IF LimiterConforms(global_limiter, now)
               THEN Goto(t, call[t], "cr_per_ip")
               ELSE Return(t, call[t], Result(FALSE, "GlobalLimit", GlobalRetrySecs, 0))
            /\ UNCHANGED <<blocked_ips, block_promise, ceiling_promise>>
    /\ UNCHANGED <<px_vars, config, ddos_config, per_ip_limiters, connection_counts,
                   cc_writer, now, limiters_created, ticket>>

\* what check_request would do with the result of the per-IP limiter, were a
\* denial to block whatever auto_block_enabled says
AfterPerIpAlwaysBlock(t, id, allowed) ==
    LET c == [call[t] EXCEPT !.bucket = id] IN
    IF ~allowed
    THEN Goto(t, c, "cr_auto_block")
    ELSE IF ddos_config.enabled
         THEN Goto(t, c, "cr_ddos")
         ELSE Return(t, c, Result(TRUE, "Allowed", NoDuration, NoRemaining))

\* what check_request does with the result of the per-IP limiter numbered id
AfterPerIp(t, id, allowed) ==
    LET c == [call[t] EXCEPT !.bucket = id] IN
    IF ~allowed
    THEN IF config.auto_block_enabled
         THEN Goto(t, c, "cr_auto_block")
         ELSE Return(t, c, Result(FALSE, "RateLimit", PerIpRetrySecs, 0))
    ELSE IF ddos_config.enabled
         THEN Goto(t, c, "cr_ddos")
         ELSE Return(t, c, Result(TRUE, "Allowed", NoDuration, NoRemaining))

\* check_per_ip_limit under the read lock
CheckPerIpLimit(t) ==
    /\ pc[t] = "cr_per_ip"
    /\ IF call[t].ip \in DOMAIN per_ip_limiters
       THEN /\ per_ip_limiters' =
                 [per_ip_limiters EXCEPT ![call[t].ip] = LimiterAfter(@, now)]
            /\ AfterPerIp(t, per_ip_limiters[call[t].ip].id,
                          LimiterConforms(per_ip_limiters[call[t].ip], now))
       ELSE /\ Goto(t, call[t], "cr_create")
            /\ UNCHANGED per_ip_limiters
    /\ UNCHANGED <<px_vars, config, ddos_config, global_limiter, blocked_ips,
                   connection_counts, cc_writer, now, hist_vars>>

\* the table after the write-locked branch of check_per_ip_limit has inserted
\* the limiter it built and checked
InsertLimiter(client_ip, limiter) ==
    [ip \in DOMAIN per_ip_limiters \cup {client_ip} |->
        IF ip = client_ip THEN limiter ELSE per_ip_limiters[ip]]

\* check_per_ip_limit under the write lock: build a limiter, check it, insert it
CheckPerIpLimitCreate(t) ==
    /\ pc[t] = "cr_create"
    /\ LET limiter == NewLimiter(limiters_created[call[t].ip] + 1) IN
         /\ per_ip_limiters' = InsertLimiter(call[t].ip, LimiterAfter(limiter, now))
         /\ AfterPerIp(t, limiter.id, LimiterConforms(limiter, now))
    /\ limiters_created' = [limiters_created EXCEPT ![call[t].ip] = @ + 1]
    /\ UNCHANGED <<px_vars, config, ddos_config, global_limiter, blocked_ips,
                   connection_counts, cc_writer, now,
                   block_promise, ceiling_promise, ticket>>

\* the auto-block after a per-IP denial
CheckRequestAutoBlock(t) ==
    /\ pc[t] = "cr_auto_block"
    /\ BlockCount(call[t].ip) < MaxBlockCount
    /\ BlockWriteFree
    /\ blocked_ips' = BlockIp(call[t].ip, "RateLimit", config.block_duration)
    /\ NoteBlock(call[t].ip, "RateLimit", config.block_duration)
    /\ Return(t, call[t], Result(FALSE, "RateLimit", PerIpRetrySecs, 0))
    /\ UNCHANGED <<px_vars, config, ddos_config, global_limiter, per_ip_limiters,
                   connection_counts, cc_writer, now, limiters_created, ticket>>

\* check_ddos_protection, were the ceiling to allow one connection more
OverCeilingByTwo(client_ip) ==
    /\ client_ip \in DOMAIN connection_counts
    /\ connection_counts[client_ip].active_connections
          > ddos_config.max_connections_per_ip + 1

\* check_ddos_protection: more connections than the ceiling
OverCeiling(client_ip) ==
    /\ client_ip \in DOMAIN connection_counts
    /\ connection_counts[client_ip].active_connections
          > ddos_config.max_connections_per_ip

CheckDdosProtection(t) ==
    /\ pc[t] = "cr_ddos"
    /\ cc_writer = NoTask
    /\ IF OverCeiling(call[t].ip)
       THEN Return(t, call[t], Result(FALSE, "TooManyConnections", DdosRetrySecs, 0))
       ELSE Return(t, call[t], Result(TRUE, "Allowed", NoDuration, NoRemaining))
    /\ UNCHANGED <<px_vars, config, ddos_config, global_limiter, per_ip_limiters, blocked_ips,
                   connection_counts, cc_writer, now, hist_vars>>

-----------------------------------------------------------------------------
(* track_connection *)

\* or_insert_with: the tracker of client_ip, a fresh one when it has none
TrackerOf(client_ip) ==
    IF client_ip \in DOMAIN connection_counts
    THEN connection_counts[client_ip]
    ELSE [active_connections |-> 0, last_connection |-> now, connection_rate |-> <<>>]

\* a variant that drops the connect made exactly one minute ago
RECURSIVE RetainRecentStrict(_)
RetainRecentStrict(rate) ==
    IF rate = <<>> THEN <<>>
    ELSE IF now - Head(rate) < RateWindowSecs
         THEN <<Head(rate)>> \o RetainRecentStrict(Tail(rate))
         ELSE RetainRecentStrict(Tail(rate))

\* Vec::retain: the connects of the last minute, in order
RECURSIVE RetainRecent(_)
RetainRecent(rate) ==
    IF rate = <<>> THEN <<>>
    ELSE IF now - Head(rate) <= RateWindowSecs
         THEN <<Head(rate)>> \o RetainRecent(Tail(rate))
         ELSE RetainRecent(Tail(rate))

\* the tracker after a connect
Connected(tracker) ==
    [active_connections |-> tracker.active_connections + 1,
     last_connection |-> now,
     connection_rate |-> RetainRecent(Append(tracker.connection_rate, now))]

\* a variant that subtracts without the floor
DisconnectedUnfloored(tracker) ==
    [tracker EXCEPT !.active_connections = @ - 1]

\* the tracker after a disconnect (saturating_sub)
Disconnected(tracker) ==
    [tracker EXCEPT !.active_connections = IF @ > 0 THEN @ - 1 ELSE 0]

\* a variant that earns no block once a whitelist is configured
ConnectVerdictUnderWhitelist(tracker) ==
    IF config.whitelist # <<>> THEN "-"
    ELSE IF tracker.active_connections > ddos_config.max_connections_per_ip
    THEN "TooManyConnections"
    ELSE IF Len(tracker.connection_rate) > ddos_config.connection_rate_limit
    THEN "DdosDetection"
    ELSE "-"

\* the block a connect earns, "-" when it earns none
ConnectVerdict(tracker) ==
    IF tracker.active_connections > ddos_config.max_connections_per_ip
    THEN "TooManyConnections"
    ELSE IF Len(tracker.connection_rate) > ddos_config.connection_rate_limit
    THEN "DdosDetection"
    ELSE "-"

PutTracker(client_ip, tracker) ==
    [ip \in DOMAIN connection_counts \cup {client_ip} |->
        IF ip = client_ip THEN tracker ELSE connection_counts[ip]]

\* track_connection under the connection_counts write lock, up to block_ip's await
TrackConnection(t, client_ip, connected) ==
    /\ pc[t] = "idle"
    /\ IF ~ddos_config.enabled
       THEN /\ Return(t, Call("track_connection", client_ip, NoSize, connected),
                      BoolResult(TRUE))
            /\ UNCHANGED <<connection_counts, cc_writer>>
       ELSE /\ CountsWriteFree
            /\ connected =>
                 /\ TrackerOf(client_ip).active_connections < MaxConnects
                 /\ Len(TrackerOf(client_ip).connection_rate) < MaxConnects
            /\ LET tracker == IF connected THEN Connected(TrackerOf(client_ip))
                              ELSE Disconnected(TrackerOf(client_ip))
                   verdict == IF connected THEN ConnectVerdict(tracker) ELSE "-"
                   c == [Call("track_connection", client_ip, NoSize, connected)
                           EXCEPT !.why = verdict]
               IN /\ connection_counts' = PutTracker(client_ip, tracker)
                  /\ IF verdict = "-"
                     THEN /\ Return(t, c, BoolResult(TRUE))
                          /\ UNCHANGED cc_writer
                     ELSE /\ Goto(t, c, "tc_block")
                          /\ cc_writer' = t
    /\ UNCHANGED <<px_vars, config, ddos_config, global_limiter, per_ip_limiters, blocked_ips,
                   now, hist_vars>>

BlockSecs(reason) ==
    IF reason = "TooManyConnections" THEN ConnBlockSecs ELSE DdosBlockSecs

\* track_connection's block_ip, then its return, which drops the write lock
TrackConnectionBlock(t) ==
    /\ pc[t] = "tc_block"
    /\ BlockCount(call[t].ip) < MaxBlockCount
    /\ BlockWriteFree
    /\ blocked_ips' = BlockIp(call[t].ip, call[t].why, BlockSecs(call[t].why))
    /\ NoteBlock(call[t].ip, call[t].why, BlockSecs(call[t].why))
    /\ cc_writer' = NoTask
    /\ Return(t, call[t], BoolResult(FALSE))
    /\ UNCHANGED <<px_vars, config, ddos_config, global_limiter, per_ip_limiters,
                   connection_counts, now, limiters_created, ticket>>

-----------------------------------------------------------------------------
(* unblock_ip *)

\* a variant that looks the record up after removing it
UnblockIpLateLookup(t, client_ip) ==
    /\ pc[t] = "idle"
    /\ BlockWriteFree
    /\ blocked_ips' = Remove(blocked_ips, client_ip)
    /\ Return(t, Call("unblock_ip", client_ip, NoSize, FALSE),
              BoolResult(client_ip \in DOMAIN blocked_ips'))
    /\ block_promise' = [block_promise EXCEPT ![client_ip] = 0]
    /\ ceiling_promise' = [ceiling_promise EXCEPT ![client_ip] = 0]
    /\ UNCHANGED <<px_vars, config, ddos_config, global_limiter, per_ip_limiters,
                   connection_counts, cc_writer, now, limiters_created, ticket>>

UnblockIp(t, client_ip) ==
    /\ pc[t] = "idle"
    /\ BlockWriteFree
    /\ blocked_ips' = Remove(blocked_ips, client_ip)
    /\ Return(t, Call("unblock_ip", client_ip, NoSize, FALSE),
              BoolResult(client_ip \in DOMAIN blocked_ips))
    /\ block_promise' = [block_promise EXCEPT ![client_ip] = 0]
    /\ ceiling_promise' = [ceiling_promise EXCEPT ![client_ip] = 0]
    /\ UNCHANGED <<px_vars, config, ddos_config, global_limiter, per_ip_limiters,
                   connection_counts, cc_writer, now, limiters_created, ticket>>

-----------------------------------------------------------------------------
(* cleanup_expired *)

\* a variant that keeps the record that expires at time at
UnexpiredBlocksInclusive(at) ==
    [ip \in {i \in DOMAIN blocked_ips : at <= blocked_ips[i].blocked_until} |->
        blocked_ips[ip]]

\* retain: the block records that have not expired at time at
UnexpiredBlocks(at) ==
    [ip \in {i \in DOMAIN blocked_ips : at < blocked_ips[i].blocked_until} |->
        blocked_ips[ip]]

\* retain: the trackers that are in use or were used within the last hour before at
\* (duration_since is zero for a last_connection after at)
LiveTrackers(at) ==
    [ip \in {i \in DOMAIN connection_counts :
                \/ connection_counts[i].active_connections > 0
                \/ Max(at - connection_counts[i].last_connection, 0) < TrackerIdleSecs} |->
        connection_counts[ip]]

\* cleanup_expired up to its first await: the clock is read once, before the
\* wait for the write lock of blocked_ips
CleanupExpired(t) ==
    /\ pc[t] = "idle"
    /\ Goto(t, [Call("cleanup_expired", "", NoSize, FALSE) EXCEPT !.at = now],
            "cl_blocks")
    /\ UNCHANGED <<px_vars, rl_data, hist_vars>>

\* blocked_ips.write() is granted: the records that have expired by the
\* instant read at the start are removed
CleanupBlocks(t) ==
    /\ pc[t] = "cl_blocks"
    /\ BlockWriteFree
    /\ blocked_ips' = UnexpiredBlocks(call[t].at)
    /\ Goto(t, call[t], "cl_trackers")
    /\ UNCHANGED <<px_vars, config, ddos_config, global_limiter, per_ip_limiters,
                   connection_counts, cc_writer, now, hist_vars>>

\* connection_counts.write() is granted: the trackers idle by the same instant
\* are removed
CleanupTrackers(t) ==
    /\ pc[t] = "cl_trackers"
    /\ CountsWriteFree
    /\ connection_counts' = LiveTrackers(call[t].at)
    /\ Goto(t, call[t], "cl_limiters")
    /\ UNCHANGED <<px_vars, config, ddos_config, global_limiter, per_ip_limiters, blocked_ips,
                   cc_writer, now, hist_vars>>

CleanupLimiters(t) ==
    /\ pc[t] = "cl_limiters"
    /\ per_ip_limiters' = IF Cardinality(DOMAIN per_ip_limiters) > LimiterTableCap
                          THEN EmptyMap ELSE per_ip_limiters
    /\ Return(t, call[t], UnitResult)
    /\ UNCHANGED <<px_vars, config, ddos_config, global_limiter, blocked_ips,
                   connection_counts, cc_writer, now, hist_vars>>

-----------------------------------------------------------------------------
(* get_stats *)

\* Instant::elapsed().as_secs(): the time since the instant, zero for an
\* instant that is still to come
Elapsed(instant) == Max(now - instant, 0)

\* the sum of the active connections of the trackers of the given IPs
RECURSIVE SumActive(_)
SumActive(ips) ==
    IF ips = {} THEN 0
    ELSE LET ip == CHOOSE i \in ips : TRUE
         IN connection_counts[ip].active_connections + SumActive(ips \ {ip})

\* the map get_stats returns
Stats ==
    [blocked_ips_count |-> Cardinality(DOMAIN blocked_ips),
     tracked_ips_count |-> Cardinality(DOMAIN per_ip_limiters),
     active_connections_count |-> SumActive(DOMAIN connection_counts),
     blocked_ips |-> [ip \in DOMAIN blocked_ips |->
                        [blocked_until |-> Elapsed(blocked_ips[ip].blocked_until),
                         reason |-> blocked_ips[ip].reason,
                         block_count |-> blocked_ips[ip].block_count]]]

StatsResult(stats) ==
    [allowed |-> TRUE, reason |-> "stats", retry_after |-> NoDuration,
     remaining |-> NoRemaining, stats |-> stats]

\* get_stats up to its second await: blocked_ips.read() is granted
GetStats(t) ==
    /\ pc[t] = "idle"
    /\ Goto(t, Call("get_stats", "", NoSize, FALSE), "gs_counts")
    /\ UNCHANGED <<px_vars, rl_data, hist_vars>>

\* connection_counts.read() is granted; the guard of blocked_ips is kept
GetStatsCounts(t) ==
    /\ pc[t] = "gs_counts"
    /\ cc_writer = NoTask
    /\ Goto(t, call[t], "gs_limiters")
    /\ UNCHANGED <<px_vars, rl_data, hist_vars>>

\* per_ip_limiters.read() is granted; the map is built and all three guards
\* are dropped
GetStatsLimiters(t) ==
    /\ pc[t] = "gs_limiters"
    /\ Return(t, call[t], StatsResult(Stats))
    /\ UNCHANGED <<px_vars, rl_data, hist_vars>>

-----------------------------------------------------------------------------
(* The clock *)

\* the clock advances to the next of the instants
Advance(instants) ==
    /\ \E i \in instants : i > now
    /\ now' = CHOOSE i \in instants : i > now /\ \A j \in instants : j > now => i <= j
    /\ last' = NoLast
    /\ UNCHANGED <<px_vars, config, ddos_config, global_limiter, per_ip_limiters,
                   blocked_ips, connection_counts, cc_writer, pc, call, hist_vars,
                   admitted>>

Tick == Advance(Instants)

-----------------------------------------------------------------------------
(* The specifications.  Each one closes the same actions under an environment: *)
(* the configurations the limiter is built from and the calls that are issued.  *)

Unlisted(c) == c.whitelist = <<>> /\ c.blacklist = <<>>

\* no request is routed or forwarded: the router holds the health route alone
\* and the forwarding rests
NoTraffic ==
    /\ load_balancing = "RoundRobin"
    /\ forwards = MaxForwards
    /\ route_config = [proxy_enabled |-> FALSE, static_enabled |-> FALSE, autoindex |-> FALSE,
                       cache_control_legal |-> TRUE]

\* no member is configured: no health checking either
NoUpstreams ==
    /\ upstreams = <<>>
    /\ health_check = [enabled |-> FALSE]

\* Spec: one client, "10.0.0.1", on no list, sends requests (task t1) while the
\* server tracks its connections, unblocks and cleans up (task t2).
Requesters == {"t1"}
Servers == {"t2"}

InitSpec ==
    /\ NoTraffic
    /\ NoUpstreams
    /\ Init
    /\ ticket = MaxTickets
    /\ Unlisted(config)
    /\ config.burst = 1

Next ==
    \/ \E t \in Requesters, ip \in TrackedIPs, size \in RequestSizes :
          CheckRequest(t, ip, size)
    \/ \E t \in Tasks : CheckRequestLimits(t)
    \/ \E t \in Tasks : CheckPerIpLimit(t)
    \/ \E t \in Tasks : CheckPerIpLimitCreate(t)
    \/ \E t \in Tasks : CheckRequestAutoBlock(t)
    \/ \E t \in Tasks : CheckDdosProtection(t)
    \/ \E t \in Servers, ip \in TrackedIPs, connected \in BOOLEAN :
          TrackConnection(t, ip, connected)
    \/ \E t \in Tasks : TrackConnectionBlock(t)
    \/ \E t \in Servers, ip \in TrackedIPs : UnblockIp(t, ip)
    \/ \E t \in Servers : CleanupExpired(t)
    \/ \E t \in Tasks : CleanupBlocks(t)
    \/ \E t \in Tasks : CleanupTrackers(t)
    \/ \E t \in Tasks : CleanupLimiters(t)
    \/ Tick

Spec == InitSpec /\ [][Next]_vars

\* SpecAdmit: requests of both clients arrive on both tasks at one instant; no
\* connection is tracked.  (No per-IP bucket denies at the instant its limiter is
\* built, as the global bucket of the same quota denies first: the auto-block
\* step is never taken.)
InitAdmit ==
    /\ NoTraffic
    /\ NoUpstreams
    /\ Init
    /\ ticket = MaxTickets

NextAdmit ==
    \/ \E t \in Tasks, ip \in IPs, size \in RequestSizes : CheckRequest(t, ip, size)
    \/ \E t \in Tasks : CheckRequestLimits(t)
    \/ \E t \in Tasks : CheckPerIpLimit(t)
    \/ \E t \in Tasks : CheckPerIpLimitCreate(t)
    \/ \E t \in Tasks : CheckDdosProtection(t)

SpecAdmit == InitAdmit /\ [][NextAdmit]_vars

\* SpecListed: "10.0.0.1" is on a list; at one instant both tasks serve requests
\* of both clients, track the connections of "10.0.0.1", with DDoS protection
\* enabled or disabled, and unblock it.  (As in
\* SpecAdmit, the auto-block step is never taken.)
InitListed ==
    /\ NoTraffic
    /\ NoUpstreams
    /\ Init
    /\ ticket = MaxTickets
    /\ ~Unlisted(config)
    /\ config.burst = 1

NextListed ==
    \/ \E t \in Tasks, ip \in IPs, size \in RequestSizes : CheckRequest(t, ip, size)
    \/ \E t \in Tasks : CheckRequestLimits(t)
    \/ \E t \in Tasks : CheckPerIpLimit(t)
    \/ \E t \in Tasks : CheckPerIpLimitCreate(t)
    \/ \E t \in Tasks : CheckDdosProtection(t)
    \/ \E t \in Tasks, ip \in TrackedIPs, connected \in BOOLEAN :
          TrackConnection(t, ip, connected)
    \/ \E t \in Tasks : TrackConnectionBlock(t)
    \/ \E t \in Tasks, ip \in TrackedIPs : UnblockIp(t, ip)

SpecListed == InitListed /\ [][NextListed]_vars

\* SpecBurst: one client on no list sends a burst of requests on both tasks at one
\* instant, with admission enabled; the calls are counted.  (The auto-block step
\* is never taken, as in SpecAdmit.)
BurstClient == "10.0.0.2"

InitBurst ==
    /\ NoTraffic
    /\ NoUpstreams
    /\ Init
    /\ ticket = 0
    /\ config.enabled

NextBurst ==
    \/ \E t \in Tasks, size \in RequestSizes : CheckRequest(t, BurstClient, size)
    \/ \E t \in Tasks : CheckRequestLimits(t)
    \/ \E t \in Tasks : CheckPerIpLimit(t)
    \/ \E t \in Tasks : CheckPerIpLimitCreate(t)
    \/ \E t \in Tasks : CheckDdosProtection(t)

SpecBurst == InitBurst /\ [][NextBurst]_vars

\* SpecGlobal: clients on no whitelist send requests on both tasks at one instant,
\* to a limiter that is enabled or not; the calls are counted.  (The auto-block
\* step is never taken, as in SpecAdmit.)
InitGlobal ==
    /\ NoTraffic
    /\ NoUpstreams
    /\ Init
    /\ ticket = 0
    /\ config.whitelist = <<>>
    /\ ~config.auto_block_enabled
    /\ ~ddos_config.enabled

NextGlobal ==
    \/ \E t \in Tasks, ip \in IPs, size \in RequestSizes : CheckRequest(t, ip, size)
    \/ \E t \in Tasks : CheckRequestLimits(t)
    \/ \E t \in Tasks : CheckPerIpLimit(t)
    \/ \E t \in Tasks : CheckPerIpLimitCreate(t)

SpecGlobal == InitGlobal /\ [][NextGlobal]_vars

\* SpecHealth: the health checking of one member while the clock advances,
\* with the admission controller switched off and idle.  (The probes of different members
\* share no data.)
InitHealth ==
    /\ NoTraffic
    /\ upstreams \in {list \in UpstreamLists : Len(list) = 1 /\ list[1].weight = 1}
    /\ health_check = [enabled |-> TRUE]
    /\ Init
    /\ ticket = MaxTickets
    /\ ~config.enabled
    /\ Unlisted(config)
    /\ config.burst = 1
    /\ ~config.auto_block_enabled
    /\ ~ddos_config.enabled

NextHealth ==
    \/ HealthRound
    \/ \E u \in Members : ProbeFailed(u)
    \/ \E u \in Members : ProbeLoadFails(u)
    \/ \E u \in Members : ProbeMarkUnhealthy(u)
    \/ \E u \in Members : ProbeSucceeded(u)
    \/ \E u \in Members : ProbeLoadHealthy(u)
    \/ \E u \in Members : ProbeMarkHealthy(u)
    \/ \E u \in Members : ProbeStamp(u)
    \/ \E u \in Members : ProbeStampWrite(u)
    \/ Tick

SpecHealth == InitHealth /\ [][NextHealth]_vars

\* SpecHealthFair: the same under fair scheduling.  The interval of
\* health_check_task ticks for ever, so another round is spawned in the end;
\* the request of a probe is answered or times out, so check_upstream_health
\* returns in the end; and the runtime polls every spawned probe that can run.
\* (The pool of SpecHealth has one member, member 1.)
ProbesFair ==
    /\ WF_vars(HealthRound)
    /\ \A u \in {1} :
          /\ WF_vars(ProbeFailed(u) \/ ProbeSucceeded(u))
          /\ WF_vars(ProbeLoadFails(u))
          /\ WF_vars(ProbeMarkUnhealthy(u))
          /\ WF_vars(ProbeLoadHealthy(u))
          /\ WF_vars(ProbeMarkHealthy(u))
          /\ WF_vars(ProbeStamp(u))
          /\ WF_vars(ProbeStampWrite(u))

SpecHealthFair == SpecHealth /\ ProbesFair

\* SpecExpiry: one client, "10.0.0.1", on a list or on none, sends requests
\* (task t1) while the server tracks its connections (task t2) and the clock
\* advances; no one unblocks or cleans up, so that a block record leaves the
\* table in check_request alone.
InitExpiry ==
    /\ NoTraffic
    /\ NoUpstreams
    /\ Init
    /\ ticket = MaxTickets
    /\ config.burst = 1
    /\ ddos_config.enabled

NextExpiry ==
    \/ \E t \in Requesters, ip \in TrackedIPs, size \in RequestSizes :
          CheckRequest(t, ip, size)
    \/ \E t \in Tasks : CheckRequestLimits(t)
    \/ \E t \in Tasks : CheckPerIpLimit(t)
    \/ \E t \in Tasks : CheckPerIpLimitCreate(t)
    \/ \E t \in Tasks : CheckRequestAutoBlock(t)
    \/ \E t \in Tasks : CheckDdosProtection(t)
    \/ \E t \in Servers, ip \in TrackedIPs, connected \in BOOLEAN :
          TrackConnection(t, ip, connected)
    \/ \E t \in Tasks : TrackConnectionBlock(t)
    \/ Tick

SpecExpiry == InitExpiry /\ [][NextExpiry]_vars

\* Connection tracking and cleanup alone, on a clock that is read at the ends
\* of the connection window, of the blocks and of the idle hour.

InitConnect ==
    /\ NoTraffic
    /\ NoUpstreams
    /\ config \in {c \in RateLimitConfigs :
                      ~c.enabled /\ Unlisted(c) /\ c.burst = 1 /\ ~c.auto_block_enabled}
    /\ Init
    /\ ticket = MaxTickets

NextConnect ==
    \/ \E t \in Tasks, ip \in TrackedIPs, connected \in BOOLEAN :
          TrackConnection(t, ip, connected)
    \/ \E t \in Tasks : TrackConnectionBlock(t)
    \/ \E t \in Servers : CleanupExpired(t)
    \/ \E t \in Tasks : CleanupBlocks(t)
    \/ \E t \in Tasks : CleanupTrackers(t)
    \/ \E t \in Tasks : CleanupLimiters(t)
    \/ Advance({0, 60, 61, 600, 3600, 3660})

SpecConnect == InitConnect /\ [][NextConnect]_vars

\* SpecStats: connection tracking by one task, get_stats, unblock_ip and
\* cleanup_expired by the other, with DDoS protection enabled, on the clock
\* of the blocks.
InitStats ==
    /\ NoTraffic
    /\ NoUpstreams
    /\ config \in {c \in RateLimitConfigs :
                      ~c.enabled /\ Unlisted(c) /\ c.burst = 1 /\ ~c.auto_block_enabled}
    /\ ddos_config \in {c \in DdosConfigs : c.enabled}
    /\ Init
    /\ ticket = MaxTickets

NextStats ==
    \/ \E t \in Requesters, ip \in TrackedIPs, connected \in BOOLEAN :
          TrackConnection(t, ip, connected)
    \/ \E t \in Tasks : TrackConnectionBlock(t)
    \/ \E t \in Servers : GetStats(t)
    \/ \E t \in Tasks : GetStatsCounts(t)
    \/ \E t \in Tasks : GetStatsLimiters(t)
    \/ \E t \in Servers, ip \in TrackedIPs : UnblockIp(t, ip)
    \/ \E t \in Servers : CleanupExpired(t)
    \/ \E t \in Tasks : CleanupBlocks(t)
    \/ \E t \in Tasks : CleanupTrackers(t)
    \/ \E t \in Tasks : CleanupLimiters(t)
    \/ Tick

SpecStats == InitStats /\ [][NextStats]_vars

\* the admission controller is switched off and rests
AdmissionOff ==
    /\ ticket = MaxTickets
    /\ config \in {c \in RateLimitConfigs :
                      ~c.enabled /\ Unlisted(c) /\ c.burst = 1 /\ ~c.auto_block_enabled}
    /\ ddos_config \in {c \in DdosConfigs : ~c.enabled}

\* SpecRoute: a router built from a configuration without members; routes are
\* added and removed, and requests are routed (task t1).  A request dispatched
\* to a proxy route fails in the selection, as no member is there; the file
\* server lists its directories (autoindex).
RoutePaths == {<<"/", "*">>, <<"/", "a", "/", "*">>}
RequestPaths == {<<"/", "a", "/", "b">>, HealthPath}

InitRoute ==
    /\ route_config \in {rc \in RouterConfigs : rc.autoindex /\ rc.cache_control_legal}
    /\ load_balancing = "RoundRobin"
    /\ forwards = MaxForwards
    /\ NoUpstreams
    /\ AdmissionOff
    /\ Init

NextRoute ==
    \/ \E path \in RoutePaths, host \in {None, Some(<<"h">>)}, priority \in {10, 50, 100} :
          AddRoute(path, host, {}, "a", priority)
    \/ \E path \in RoutePaths, host \in {None, Some(<<"h">>)} : RemoveRoute(path, host)
    \/ \E t \in Requesters, method \in {"GET", "POST"}, path \in RequestPaths,
          host \in {None, Some(<<"h">>)} : RouteRequest(t, method, path, host)
    \/ \E t \in Tasks : GetCachedFileLookup(t)
    \/ \E t \in Tasks : GetCachedFileInsert(t)

SpecRoute == InitRoute /\ [][NextRoute]_vars

\* SpecHost: routes for every path are added and removed, for any method or
\* for GET, with no host pattern, with the pattern "h" or with the pattern
\* ":h"; requests come with no Host header, with host "h" or with host "x".
NextHost ==
    \/ \E host \in {None, Some(<<"h">>), Some(<<":", "h">>)}, methods \in {{}, {"GET"}} :
          AddRoute(AnyPath, host, methods, "a", 50)
    \/ \E host \in {None, Some(<<"h">>), Some(<<":", "h">>)} : RemoveRoute(AnyPath, host)
    \/ \E t \in Requesters, method \in {"GET", "POST"}, path \in RequestPaths,
          host \in {None, Some(<<"h">>), Some(<<"x">>)} :
             RouteRequest(t, method, path, host)
    \/ \E t \in Tasks : GetCachedFileLookup(t)
    \/ \E t \in Tasks : GetCachedFileInsert(t)

SpecHost == InitRoute /\ [][NextHost]_vars

\* SpecBuilt: a router as Router::new builds it, from any configuration, over
\* no, one or two members that stay healthy; requests are routed on both tasks
\* and the proxied ones are forwarded.  No route is added or removed.  The
\* requests are for "/a/b" by any method, for the health path by GET and POST,
\* and by GET for "//a/b", which names the file of "/a/b", and for "/../a".
InitBuilt ==
    /\ forwards = 0
    /\ load_balancing = "RoundRobin"
    /\ upstreams \in {list \in UpstreamLists :
                         \A u \in 1..Len(list) :
                            list[u].max_fails = 1 /\ list[u].weight = 1}
    /\ health_check = [enabled |-> FALSE]
    /\ AdmissionOff
    /\ Init

NextBuilt ==
    \/ \E t \in Tasks,
          request \in ({"GET", "HEAD", "POST"} \X {<<"/", "a", "/", "b">>})
                          \cup ({"GET", "POST"} \X {HealthPath})
                          \cup ({"GET"} \X {<<"/", "/", "a", "/", "b">>,
                                            <<"/", ".", ".", "/", "a">>}) :
             RouteRequest(t, request[1], request[2], None)
    \/ \E t \in Tasks : GetCachedFileLookup(t)
    \/ \E t \in Tasks : GetCachedFileInsert(t)
    \/ \E t \in Tasks : CountRequest(t)
    \/ \E t \in Tasks : CountMember(t)
    \/ \E t \in Tasks : OpenConnection(t)
    \/ \E t \in Tasks, status \in {"OK", "BAD_GATEWAY"} : ForwardDone(t, status)

SpecBuilt == InitBuilt /\ [][NextBuilt]_vars

\* SpecForward: requests are forwarded on both tasks, to any member or pinned
\* to member "b", in a pool of one or two members of weight 1 that are not
\* health-checked, under the round-robin or the least-connections method; the
\* outbound call answers, fails, or is dropped with its request.
ForwardStatuses == {"OK", "BAD_GATEWAY"}

InitForward ==
    /\ forwards = 0
    /\ load_balancing \in {"RoundRobin", "LeastConnections"}
    /\ route_config = [proxy_enabled |-> FALSE, static_enabled |-> FALSE, autoindex |-> FALSE,
                       cache_control_legal |-> TRUE]
    /\ upstreams \in {list \in UpstreamLists :
                         /\ Len(list) >= 1
                         /\ \A u \in 1..Len(list) :
                               list[u].max_fails = 1 /\ list[u].weight = 1}
    /\ health_check = [enabled |-> FALSE]
    /\ AdmissionOff
    /\ Init

NextForward ==
    \/ \E t \in Tasks, upstream_name \in {"*", "b"} : ForwardRequest(t, upstream_name)
    \/ \E t \in Tasks : ScanHealthy(t)
    \/ \E t \in Tasks : PickUpstream(t)
    \/ \E t \in Tasks : LoadConnections(t)
    \/ \E t \in Tasks : CountRequest(t)
    \/ \E t \in Tasks : CountMember(t)
    \/ \E t \in Tasks : OpenConnection(t)
    \/ \E t \in Tasks, status \in ForwardStatuses : ForwardDone(t, status)
    \/ \E t \in Tasks : ForwardDropped(t)

SpecForward == InitForward /\ [][NextForward]_vars

\* SpecProbes: two members of max_fails 1 are health-checked; the first
\* member answers no probe before its timeout, so its probes wait at
\* check_upstream_health or fail, and rounds overtake them; the probes of the
\* second succeed or fail, each before the next round; meanwhile select_upstream runs for one request (task t1).
Silent == {1}

InitProbes ==
    /\ forwards = MaxForwards - 1
    /\ load_balancing = "RoundRobin"
    /\ route_config = [proxy_enabled |-> FALSE, static_enabled |-> FALSE, autoindex |-> FALSE,
                       cache_control_legal |-> TRUE]
    /\ upstreams \in {list \in UpstreamLists :
                         /\ Len(list) = 2
                         /\ \A u \in 1..Len(list) :
                               list[u].max_fails = 1 /\ list[u].weight = 1}
    /\ health_check = [enabled |-> TRUE]
    /\ AdmissionOff
    /\ Init

NextProbes ==
    \/ (\A u \in Members \ Silent : InFlight(u) = 0) /\ HealthRound
    \/ \E u \in Members : ProbeFailed(u)
    \/ \E u \in Members : ProbeLoadFails(u)
    \/ \E u \in Members : ProbeMarkUnhealthy(u)
    \/ \E u \in Members \ Silent : ProbeSucceeded(u)
    \/ \E u \in Members : ProbeLoadHealthy(u)
    \/ \E u \in Members : ProbeMarkHealthy(u)
    \/ \E u \in Members : ProbeStamp(u)
    \/ \E u \in Members : ProbeStampWrite(u)
    \/ \E t \in Requesters : ForwardRequest(t, "*")
    \/ \E t \in Tasks : ScanHealthy(t)
    \/ \E t \in Tasks : PickUpstream(t)

SpecProbes == InitProbes /\ [][NextProbes]_vars

\* SpecBalance: requests are forwarded on both tasks to any member of a pool of
\* one or two members of any weight that are not health-checked, under the
\* weighted, the IP-hash or the round-robin method; every outbound call answers.
InitBalance ==
    /\ forwards = 0
    /\ load_balancing \in {"Weighted", "IpHash", "RoundRobin"}
    /\ route_config = [proxy_enabled |-> FALSE, static_enabled |-> FALSE, autoindex |-> FALSE,
                       cache_control_legal |-> TRUE]
    /\ upstreams \in {list \in UpstreamLists :
                         /\ Len(list) >= 1
                         /\ \A u \in 1..Len(list) : list[u].max_fails = 1}
    /\ health_check = [enabled |-> FALSE]
    /\ AdmissionOff
    /\ Init

NextBalance ==
    \/ \E t \in Tasks : ForwardRequest(t, "*")
    \/ \E t \in Tasks : ScanHealthy(t)
    \/ \E t \in Tasks : PickUpstream(t)
    \/ \E t \in Tasks : CountRequest(t)
    \/ \E t \in Tasks : CountMember(t)
    \/ \E t \in Tasks : OpenConnection(t)
    \/ \E t \in Tasks : ForwardDone(t, "OK")

SpecBalance == InitBalance /\ [][NextBalance]_vars

\* SpecSelect: one request is forwarded (task t1), to any member, pinned to
\* member "a" or to a pool that does not exist, while the two members of the
\* pool, of max_fails 1, are health-checked in rounds that do not overlap.

InitSelect ==
    /\ forwards = MaxForwards - 1
    /\ load_balancing = "RoundRobin"
    /\ route_config = [proxy_enabled |-> FALSE, static_enabled |-> FALSE, autoindex |-> FALSE,
                       cache_control_legal |-> TRUE]
    /\ upstreams \in {list \in UpstreamLists :
                         /\ Len(list) = 2
                         /\ \A u \in 1..Len(list) :
                               list[u].max_fails = 1 /\ list[u].weight = 1}
    /\ health_check = [enabled |-> TRUE]
    /\ AdmissionOff
    /\ Init

NextSelect ==
    \/ (\A u \in Members : InFlight(u) = 0) /\ HealthRound
    \/ \E u \in Members : ProbeFailed(u)
    \/ \E u \in Members : ProbeLoadFails(u)
    \/ \E u \in Members : ProbeMarkUnhealthy(u)
    \/ \E u \in Members : ProbeSucceeded(u)
    \/ \E u \in Members : ProbeLoadHealthy(u)
    \/ \E u \in Members : ProbeMarkHealthy(u)
    \/ \E u \in Members : ProbeStamp(u)
    \/ \E u \in Members : ProbeStampWrite(u)
    \/ \E t \in Requesters, upstream_name \in {"*", "a", "zz"} : ForwardRequest(t, upstream_name)
    \/ \E t \in Tasks : ScanHealthy(t)
    \/ \E t \in Tasks : PickUpstream(t)
    \/ \E t \in Tasks : CountRequest(t)
    \/ \E t \in Tasks : CountMember(t)
    \/ \E t \in Tasks : OpenConnection(t)
    \/ \E t \in Tasks, status \in ForwardStatuses : ForwardDone(t, status)

SpecSelect == InitSelect /\ [][NextSelect]_vars

\* SpecCount: two requests are forwarded, on either task, to a pool of one
\* member of max_fails 1; with health checking enabled the member is probed in
\* rounds that do not overlap, with health checking disabled it is not probed.
InitCount ==
    /\ forwards = MaxForwards - 2
    /\ load_balancing = "RoundRobin"
    /\ route_config = [proxy_enabled |-> FALSE, static_enabled |-> FALSE, autoindex |-> FALSE,
                       cache_control_legal |-> TRUE]
    /\ upstreams \in {list \in UpstreamLists :
                         /\ Len(list) = 1
                         /\ list[1].max_fails = 1 /\ list[1].weight = 1}
    /\ health_check \in HealthCheckConfigs
    /\ AdmissionOff
    /\ Init

NextCount ==
    \/ (\A u \in Members : InFlight(u) = 0) /\ HealthRound
    \/ \E u \in Members : ProbeFailed(u)
    \/ \E u \in Members : ProbeLoadFails(u)
    \/ \E u \in Members : ProbeMarkUnhealthy(u)
    \/ \E u \in Members : ProbeSucceeded(u)
    \/ \E u \in Members : ProbeLoadHealthy(u)
    \/ \E u \in Members : ProbeMarkHealthy(u)
    \/ \E u \in Members : ProbeStamp(u)
    \/ \E u \in Members : ProbeStampWrite(u)
    \/ \E t \in Tasks, upstream_name \in {"*", "a"} : ForwardRequest(t, upstream_name)
    \/ \E t \in Tasks : ScanHealthy(t)
    \/ \E t \in Tasks : PickUpstream(t)
    \/ \E t \in Tasks : CountRequest(t)
    \/ \E t \in Tasks : CountMember(t)
    \/ \E t \in Tasks : OpenConnection(t)
    \/ \E t \in Tasks, status \in ForwardStatuses : ForwardDone(t, status)

SpecCount == InitCount /\ [][NextCount]_vars

-----------------------------------------------------------------------------
(* Properties *)

Min(a, b) == IF a <= b THEN a ELSE b

\* the address is written in the list
InList(list, ip) == \E i \in 1..Len(list) : list[i] = ip

\* a check_request call has just returned
Checked == last.call.op = "check_request"

AllIdle == \A t \in Tasks : pc[t] = "idle"

\* C1: the per-IP limiter is created by an atomic upsert: with concurrent
\* check_request calls for an unseen IP, at most one token bucket is ever
\* constructed for the IP, and the bucket that decided a call is the one the
\* table holds when the call returns.
C1_OneBucketPerIp ==
    /\ \A ip \in IPs : limiters_created[ip] <= 1
    /\ Checked /\ last.call.bucket # 0 =>
          /\ last.call.ip \in DOMAIN per_ip_limiters
          /\ per_ip_limiters[last.call.ip].id = last.call.bucket

\* no call of the burst carries a size above max_request_size
NoOversize ==
    /\ block_promise[BurstClient] = 0
    /\ \A t \in Tasks : ~Oversized(call[t])
    /\ ~Oversized(last.call)

\* C2 as stated: with admission enabled, a fresh limiter of burst B and a client
\* on no list, at one instant and with no other traffic, the first B check_request
\* calls are Allowed and every further one is denied; however the calls
\* interleave, never more than B are allowed.
C2_BurstThenDeny_AnySize ==
    ticket < MaxTickets =>
        /\ admitted <= config.burst
        /\ AllIdle => admitted = Min(config.burst, ticket)

\* C2 amended: the same, for calls that carry no size or a size of at most
\* max_request_size.
C2_BurstThenDeny ==
    NoOversize /\ ticket < MaxTickets =>
        /\ admitted <= config.burst
        /\ AllIdle => admitted = Min(config.burst, ticket)

\* a burst of B + 1 calls has returned: B of them allowed, the last one denied
C2_Witness ==
    /\ NoOversize
    /\ AllIdle
    /\ config.burst = 2
    /\ ticket = 3
    /\ admitted = 2
    /\ Checked /\ ~last.ret.allowed

\* C3: with burst = 1 and requests_per_minute = 1 on a fresh limiter, the first
\* check_request returns Allowed and the second one, issued at once from the same
\* IP after it, is denied with the decision RateLimit (requests within the size
\* bound).
C3_SecondIsRateLimit ==
    /\ config.burst = 1
    /\ config.requests_per_minute = 1
    /\ NoOversize
    /\ Checked
    =>
    /\ last.call.seq = 1 /\ ticket = 1 =>
          last.ret.allowed /\ last.ret.reason = "Allowed"
    /\ last.call.seq = 2 /\ last.call.prior = 1 =>
          ~last.ret.allowed /\ last.ret.reason = "RateLimit"

\* C4 as stated: for an IP in the whitelist, check_request returns allowed with
\* the reason Whitelisted in every reachable state.
C4_WhitelistedAlways ==
    Checked /\ InList(config.whitelist, last.call.ip) =>
        last.ret.allowed /\ last.ret.reason = "Whitelisted"

\* C4 amended: for an IP in the whitelist, check_request returns allowed in every
\* reachable state, with the reason Whitelisted when admission is enabled and
\* Allowed when it is disabled.
C4_WhitelistedWhenEnabled ==
    Checked /\ InList(config.whitelist, last.call.ip) =>
        /\ last.ret.allowed
        /\ last.ret.reason = IF config.enabled THEN "Whitelisted" ELSE "Allowed"

\* a whitelisted IP is let through while it has an unexpired block, more
\* connections than the ceiling, and the global bucket is exhausted
C4_Witness ==
    /\ Checked
    /\ InList(config.whitelist, last.call.ip)
    /\ last.ret.reason = "Whitelisted"
    /\ ActiveBlock(last.call.ip)
    /\ OverCeiling(last.call.ip)
    /\ ~LimiterConforms(global_limiter, now)

\* C5 as stated: an IP in the blacklist is always denied with the reason
\* Blacklisted, whatever the buckets, the block table and the trackers hold.
C5_BlacklistedAlways ==
    Checked /\ InList(config.blacklist, last.call.ip) =>
        ~last.ret.allowed /\ last.ret.reason = "Blacklisted"

\* C5 amended: with admission enabled, an IP in the blacklist and not in the
\* whitelist is always denied with the reason Blacklisted.
C5_BlacklistedUnlessWhitelisted ==
    /\ Checked
    /\ config.enabled
    /\ InList(config.blacklist, last.call.ip)
    /\ ~InList(config.whitelist, last.call.ip)
    =>
    ~last.ret.allowed /\ last.ret.reason = "Blacklisted"

\* a blacklisted IP is denied as Blacklisted while it has an unexpired block and
\* more connections than the ceiling
C5_Witness ==
    /\ Checked
    /\ InList(config.blacklist, last.call.ip)
    /\ last.ret.reason = "Blacklisted"
    /\ ActiveBlock(last.call.ip)
    /\ OverCeiling(last.call.ip)

\* C6: once a block of duration D is created for an IP at time t, every
\* check_request from the IP (admission enabled, the IP on no list) that starts
\* before t + D returns Blocked, whatever else is called in between except
\* unblock_ip; one that starts at or after t + D is not Blocked.
C6_BlockedUntilExpiry ==
    Checked /\ config.enabled /\ Unlisted(config) =>
        /\ last.call.promised => last.ret.reason = "Blocked"
        /\ ~last.call.promised /\ block_promise[last.call.ip] > 0 =>
              last.ret.reason # "Blocked"

\* C7: a track_connection(ip, true) that takes the active connections above
\* max_connections_per_ip returns false and leaves a TooManyConnections block
\* record; every check_request from the IP that starts before that block
\* expires returns Blocked.
C7_CeilingBlocks ==
    /\ last.call.op = "track_connection" /\ last.call.why = "TooManyConnections" =>
          /\ last.ret = BoolResult(FALSE)
          /\ last.call.ip \in DOMAIN blocked_ips
          /\ blocked_ips[last.call.ip].reason = "TooManyConnections"
    /\ Checked /\ config.enabled /\ Unlisted(config) /\ last.call.ceiling =>
          last.ret.reason = "Blocked"

\* what unblock_ip may not touch besides the block table
Untouched == <<config, ddos_config, global_limiter, per_ip_limiters, connection_counts>>

\* C8 as stated: unblock_ip on an IP with no active (unexpired) block returns
\* false and changes nothing; on a blocked IP it returns true, and called again
\* at once it returns false.
C8_UnblockInactive ==
    [][\A t \in Tasks, ip \in IPs : UnblockIp(t, ip) =>
          /\ ~ActiveBlock(ip) =>
                /\ last'.ret = BoolResult(FALSE)
                /\ blocked_ips' = blocked_ips
                /\ Untouched' = Untouched
          /\ ActiveBlock(ip) => last'.ret = BoolResult(TRUE)
          /\ last.call.op = "unblock_ip" /\ last.call.ip = ip =>
                last'.ret = BoolResult(FALSE)]_vars

\* C8 amended: unblock_ip on an IP with no block record returns false and
\* changes nothing; on an IP with a block record, expired or not, it returns
\* true and removes the record; called again at once it returns false.
C8_UnblockAbsent ==
    [][\A t \in Tasks, ip \in IPs : UnblockIp(t, ip) =>
          /\ ip \notin DOMAIN blocked_ips =>
                /\ last'.ret = BoolResult(FALSE)
                /\ blocked_ips' = blocked_ips
                /\ Untouched' = Untouched
          /\ ip \in DOMAIN blocked_ips =>
                /\ last'.ret = BoolResult(TRUE)
                /\ ip \notin DOMAIN blocked_ips'
                /\ Untouched' = Untouched
          /\ last.call.op = "unblock_ip" /\ last.call.ip = ip =>
                last'.ret = BoolResult(FALSE)]_vars

\* unblock_ip has returned false for an IP that has no block record, though it
\* has more connections than the ceiling
C8_Witness ==
    /\ last.call.op = "unblock_ip"
    /\ last.ret = BoolResult(FALSE)
    /\ last.call.ip \notin DOMAIN blocked_ips
    /\ OverCeiling(last.call.ip)

\* C9: with the probes of a member applied one after another, the member is
\* Healthy as long as fewer than max_fails probes failed in a row and Unhealthy
\* from the max_fails-th consecutive failure on; a successful probe makes it
\* Healthy again and leaves the consecutive-fail counter at zero.
C9_SequentialProbes ==
    \A u \in Members :
        ~overlapped[u] /\ InFlight(u) = 0 =>
            /\ healthy[u] <=> streak[u] < upstreams[u].max_fails
            /\ current_fails[u] = streak[u]

\* a member probed one probe at a time has turned Unhealthy at its second
\* consecutive failure
C9_Witness ==
    \E u \in Members :
        /\ ~overlapped[u]
        /\ InFlight(u) = 0
        /\ upstreams[u].max_fails = 2
        /\ streak[u] = 2
        /\ ~healthy[u]

\* C10: however the probes interleave, the healthy flag of a member turns
\* false only in a state where its consecutive-fail counter is at least
\* max_fails.
C10_UnhealthyOnlyAtMaxFails ==
    [][\A u \in Members :
          healthy[u] /\ ~healthy'[u] =>
              current_fails'[u] >= upstreams[u].max_fails]_vars

\* task t takes the first step of a check_request, the one that holds
\* check_blocked_ip, and the IP of that call
Began(t) ==
    /\ pc[t] = "idle"
    /\ \/ pc'[t] = "cr_limits"
       \/ last'.task = t /\ last'.call.op = "check_request"
BeganCall(t) == IF pc'[t] = "cr_limits" THEN call'[t] ELSE last'.call
BeganIp(t) == BeganCall(t).ip

\* the block table holds a record of ip that has expired
ExpiredRecord(table, ip, at) == ip \in DOMAIN table /\ ~(at < table[ip].blocked_until)

\* C16 as stated: a block record whose blocked_until is not in the future is
\* never treated as blocking, and the next check_request for its IP removes
\* it: once check_request has looked at the block table, no expired record of
\* the IP remains.
C16_ExpiredRemoved_Always ==
    [][\A t \in Tasks : Began(t) =>
          /\ last'.ret.reason = "Blocked" => ~ExpiredRecord(blocked_ips, BeganIp(t), now)
          /\ ~ExpiredRecord(blocked_ips', BeganIp(t), now')]_vars

\* C16 amended: the same, for a check_request that reaches check_blocked_ip:
\* admission is enabled and the IP is on neither list.
C16_ExpiredRemoved ==
    [][\A t \in Tasks : Began(t) =>
          /\ last'.ret.reason = "Blocked" => ~ExpiredRecord(blocked_ips, BeganIp(t), now)
          /\ config.enabled /\ ~is_whitelisted(BeganIp(t)) /\ ~is_blacklisted(BeganIp(t)) =>
                ~ExpiredRecord(blocked_ips', BeganIp(t), now')]_vars

\* a check_request has found the block of its IP expired at the very instant
\* blocked_until, has removed it and goes on to the limits
C16_Witness ==
    \E t \in Tasks :
        /\ pc[t] = "cr_limits"
        /\ block_promise[call[t].ip] = now
        /\ now > 0
        /\ call[t].ip \notin DOMAIN blocked_ips

\* the buckets, the block records and the connection trackers
AdmissionState == <<global_limiter, per_ip_limiters, blocked_ips, connection_counts>>

\* C17: with admission control disabled in the configuration, check_request
\* returns Allowed for every IP and request size, blacklisted and currently
\* blocked IPs included, and changes no bucket, block record or tracker.
C17_DisabledAllowsAll ==
    [][\A t \in Tasks : Began(t) /\ ~config.enabled =>
          /\ last'.task = t
          /\ last'.ret = Result(TRUE, "Allowed", NoDuration, NoRemaining)
          /\ AdmissionState' = AdmissionState]_vars

\* with admission disabled, an oversized request of a blacklisted IP that has
\* an unexpired block has been allowed
C17_Witness ==
    /\ Checked
    /\ ~config.enabled
    /\ last.ret.reason = "Allowed"
    /\ last.call.size > config.max_request_size
    /\ InList(config.blacklist, last.call.ip)
    /\ ActiveBlock(last.call.ip)

\* C18: a check_request that returns Whitelisted or Blacklisted leaves all
\* admission state unchanged: it takes no token from the global or any per-IP
\* bucket, creates no per-IP limiter, and creates, changes or removes no block
\* record or connection tracker.
C18_ListedLeavesState ==
    [][\A t \in Tasks :
          /\ Began(t)
          /\ last'.task = t
          /\ last'.ret.reason \in {"Whitelisted", "Blacklisted"}
          => /\ AdmissionState' = AdmissionState
             /\ limiters_created' = limiters_created]_vars

\* a check_request has returned Blacklisted for an IP that has a connection
\* tracker and an expired block record, and the record is still in the table
C18_Witness ==
    /\ Checked
    /\ last.ret.reason = "Blacklisted"
    /\ last.call.ip \in DOMAIN connection_counts
    /\ ExpiredRecord(blocked_ips, last.call.ip, now)

\* what the size rule does in the step of task t that follows check_blocked_ip:
\* a request larger than max_request_size is denied with RateLimit and a
\* retry_after of 300 s, its IP gets a block record that ends 300 s from now,
\* and no bucket is touched; a request of the maximal size or of no stated size
\* goes on to the global bucket and no block record is written
SizeRule(t) ==
    pc[t] = "cr_limits" /\ pc'[t] # "cr_limits" =>
        IF call[t].size > config.max_request_size
        THEN /\ last'.task = t
             /\ last'.ret = Result(FALSE, "RateLimit", SizeBlockSecs, 0)
             /\ call[t].ip \in DOMAIN blocked_ips'
             /\ blocked_ips'[call[t].ip].blocked_until = now + SizeBlockSecs
             /\ global_limiter' = global_limiter
             /\ per_ip_limiters' = per_ip_limiters
        ELSE /\ blocked_ips' = blocked_ips
             /\ \/ pc'[t] = "cr_per_ip"
                \/ last'.task = t /\ last'.ret.reason = "GlobalLimit"

\* C19 as stated: a check_request from an unblocked, unlisted IP whose size is
\* strictly greater than max_request_size reaches the size rule, is denied
\* there with RateLimit and retry_after 300 s and gets a block record of 300 s
\* without consuming a token; a size equal to the maximum, or an absent size,
\* is not rejected by the rule.
C19_OversizeDenied_Always ==
    [][\A t \in Tasks :
          /\ /\ Began(t)
             /\ BeganCall(t).size > config.max_request_size
             /\ ~InList(config.whitelist, BeganIp(t))
             /\ ~InList(config.blacklist, BeganIp(t))
             /\ ~ActiveBlock(BeganIp(t))
             => pc'[t] = "cr_limits" /\ global_limiter' = global_limiter
          /\ SizeRule(t)]_vars

\* C19 amended: the same with admission control enabled.
C19_OversizeDenied ==
    [][\A t \in Tasks :
          /\ /\ Began(t)
             /\ config.enabled
             /\ BeganCall(t).size > config.max_request_size
             /\ ~InList(config.whitelist, BeganIp(t))
             /\ ~InList(config.blacklist, BeganIp(t))
             /\ ~ActiveBlock(BeganIp(t))
             => pc'[t] = "cr_limits" /\ global_limiter' = global_limiter
          /\ SizeRule(t)]_vars

\* an oversized request has been denied with RateLimit and 300 s, and its IP,
\* which had no unexpired block, is blocked until 300 s from now
C19_Witness ==
    /\ Checked
    /\ last.call.size > config.max_request_size
    /\ ~last.call.promised
    /\ last.ret = Result(FALSE, "RateLimit", SizeBlockSecs, 0)
    /\ ActiveBlock(last.call.ip)
    /\ blocked_ips[last.call.ip].blocked_until = now + SizeBlockSecs
    /\ global_limiter = NewLimiter(0)

\* the per-IP bucket of the call of task t is about to deny it
PerIpDenies(t) ==
    /\ pc[t] = "cr_per_ip"
    /\ call[t].ip \in DOMAIN per_ip_limiters
    /\ ~LimiterConforms(per_ip_limiters[call[t].ip], now)

\* C20: when the per-IP bucket check fails, check_request returns RateLimit
\* with a retry_after of 60 s, and a block record of the IP that lasts the
\* configured block_duration is created if and only if auto_block_enabled is
\* set: with auto-block off the denial writes no block record, and a call that
\* passes the per-IP check writes none either.
C20_AutoBlockIffEnabled ==
    [][\A t \in Tasks :
          /\ PerIpDenies(t) /\ pc'[t] # "cr_per_ip" =>
                /\ blocked_ips' = blocked_ips
                /\ IF config.auto_block_enabled
                   THEN pc'[t] = "cr_auto_block"
                   ELSE /\ last'.task = t
                        /\ last'.ret = Result(FALSE, "RateLimit", PerIpRetrySecs, 0)
          /\ pc[t] = "cr_auto_block" /\ pc'[t] # "cr_auto_block" =>
                /\ config.auto_block_enabled
                /\ last'.task = t
                /\ last'.ret = Result(FALSE, "RateLimit", PerIpRetrySecs, 0)
                /\ call[t].ip \in DOMAIN blocked_ips'
                /\ blocked_ips'[call[t].ip].blocked_until = now + config.block_duration
          /\ pc[t] \in {"cr_per_ip", "cr_create", "cr_ddos"} /\ pc'[t] # pc[t] =>
                blocked_ips' = blocked_ips]_vars

\* the per-IP bucket has denied a request that the global bucket let pass, and
\* with auto-block on the IP is blocked for block_duration from now
C20_Witness ==
    /\ Checked
    /\ last.ret = Result(FALSE, "RateLimit", PerIpRetrySecs, 0)
    /\ ~Oversized(last.call)
    /\ config.auto_block_enabled
    /\ ActiveBlock(last.call.ip)
    /\ blocked_ips[last.call.ip].blocked_until = now + config.block_duration

\* a route_request has just returned or has gone on to forward
Routed == last.call.op = "route_request"

\* C13: of the routes that match a request, the router dispatches to one of
\* the highest priority, in whatever order the routes were added; when some
\* route matches, the request is dispatched.
C13_HighestPriorityWins ==
    Routed =>
        LET c == last.call IN
        /\ Matching(c.path, c.method, c.host) # {} => c.route # 0
        /\ c.route # 0 =>
              /\ c.route \in Matching(c.path, c.method, c.host)
              /\ \A i \in Matching(c.path, c.method, c.host) :
                    routes[i].priority <= routes[c.route].priority

\* a request matched by routes of priority 10, 50 and 100 has gone to the
\* route of priority 100, which was added after the two others
C13_Witness ==
    /\ Routed
    /\ last.call.route # 0
    /\ routes[last.call.route].priority = 100
    /\ \E i, j \in Matching(last.call.path, last.call.method, last.call.host) :
          /\ routes[i].priority = 50
          /\ routes[j].priority = 10
          /\ routes[i].nth < routes[last.call.route].nth
          /\ routes[j].nth < routes[last.call.route].nth
          /\ routes[j].nth < routes[i].nth

\* C14: after construction and after any sequence of add_route and
\* remove_route calls the route table is sorted by descending priority, and
\* routes of equal priority stand in the order of their insertion.
C14_SortedStable ==
    \A i, j \in 1..Len(routes) :
        i < j =>
            /\ routes[i].priority >= routes[j].priority
            /\ routes[i].priority = routes[j].priority => routes[i].nth < routes[j].nth

\* after the static route, which was inserted before them, has been removed,
\* the table holds two added routes of its priority in the order of their
\* insertion, the second of them added to a table that held the first
C14_Witness ==
    /\ route_config.static_enabled
    /\ routes_added = 2
    /\ Len(routes) = 3
    /\ routes[2].priority = 10
    /\ routes[3].priority = 10
    /\ routes[2].handler.kind = "Proxy"
    /\ routes[3].nth = routes[2].nth + 1

\* select_upstream has just failed with "No healthy upstreams available"
SelectFailed ==
    /\ last.call.op = "forward_request"
    /\ last.call.member = 0
    /\ last.ret = StatusResult("BAD_GATEWAY")

\* C11: select_upstream fails with the no-healthy-upstream error only when at
\* some instant of the selection no member was healthy, whatever pool name was
\* asked for; a member it returns was healthy when its flag was read.
C11_FailsOnlyWhenNoneHealthy ==
    /\ SelectFailed => last.call.down
    /\ \A t \in Tasks :
          pc[t] = "fr_count" =>
              \/ \E i \in 1..Len(call[t].seen) : call[t].seen[i] = call[t].member
              \/ call[t].seen = <<>> /\ upstreams[call[t].member].name = call[t].pool

\* how often member u stands among the M selections that follow the first
\* `start` ones
TimesPicked(u, start, M) == Cardinality({k \in (start + 1)..(start + M) : picks[k] = u})

\* C12: under the round-robin method, with all N members healthy throughout
\* and the selections made by load balancing, sequentially or concurrently, any
\* M consecutive selections with M a multiple of N choose each member exactly
\* M/N times.
C12_RoundRobinFair ==
    load_balancing = "RoundRobin" /\ (\A u \in Members : healthy[u]) =>
        \A start \in 0..Len(picks), M \in 1..Len(picks) :
            start + M <= Len(picks) /\ M % Len(upstreams) = 0 =>
                \A u \in Members : TimesPicked(u, start, M) = M \div Len(upstreams)

\* four selections among two members were made round-robin, the last two by
\* calls that run side by side
C12_Witness ==
    /\ load_balancing = "RoundRobin"
    /\ Len(upstreams) = 2
    /\ Len(picks) = 4
    /\ \A t \in Tasks : pc[t] = "fr_count" /\ call[t].seen # <<>>
    /\ call["t1"].member # call["t2"].member

\* the forward_request calls that stand between the increment and the
\* decrement of the active connections of member u
InFlightTo(u) == {t \in Tasks : pc[t] = "fr_await" /\ call[t].member = u}

\* C15: for every member, active_connections equals the number of
\* forward_request calls in flight to it: it never underflows, and it is 0
\* whenever no forward is in flight.
C15_ActiveEqualsInFlight ==
    \A u \in Members :
        /\ active_connections[u] >= 0
        /\ active_connections[u] = Cardinality(InFlightTo(u))

\* the tracker of ip shows more active connections than max_connections_per_ip
ShowsOverCeiling(table, ip) ==
    ip \in DOMAIN table /\ table[ip].active_connections > ddos_config.max_connections_per_ip

\* C21: with admission and DDoS protection enabled, check_request never
\* returns Allowed for an IP whose tracker shows more active connections than
\* max_connections_per_ip at the time of the check: a request that has passed
\* the block, size and rate checks is then denied with TooManyConnections.
C21_OverCeilingDenied ==
    [][\A t \in Tasks :
          /\ /\ last'.task = t
             /\ last'.call.op = "check_request"
             /\ last'.ret.reason = "Allowed"
             /\ config.enabled
             /\ ddos_config.enabled
             => /\ ~ShowsOverCeiling(connection_counts, last'.call.ip)
                /\ ~ShowsOverCeiling(connection_counts', last'.call.ip)
          /\ /\ pc[t] = "cr_ddos"
             /\ pc'[t] # "cr_ddos"
             /\ ShowsOverCeiling(connection_counts, call[t].ip)
             => /\ last'.task = t
                /\ last'.ret = Result(FALSE, "TooManyConnections", DdosRetrySecs, 0)]_vars

\* a request of an IP whose block has run out, but whose connections are still
\* more than the ceiling, has passed the block, size and rate checks and has
\* been denied with TooManyConnections
C21_Witness ==
    /\ Checked
    /\ last.ret = Result(FALSE, "TooManyConnections", DdosRetrySecs, 0)
    /\ ShowsOverCeiling(connection_counts, last.call.ip)
    /\ last.call.ip \notin DOMAIN blocked_ips
    /\ last.call.bucket # 0


\* the call of task t that the step has just taken up or has just returned from
StepCall(t) == IF last'.task = t THEN last'.call ELSE call'[t]

\* task t takes up track_connection(ip, connected) in this step
TracksNow(t, ip, connected) ==
    /\ pc[t] = "idle"
    /\ StepCall(t).op = "track_connection"
    /\ StepCall(t).ip = ip
    /\ StepCall(t).connected = connected

\* the connects on record for ip before the step
ConnectsOf(ip) ==
    IF ip \in DOMAIN connection_counts THEN connection_counts[ip].connection_rate ELSE <<>>

\* how many of the connects on record, and the one made now, lie within the
\* last minute
RecentConnects(ip) ==
    Cardinality({i \in 1..Len(ConnectsOf(ip)) : now - ConnectsOf(ip)[i] <= RateWindowSecs}) + 1

\* task t goes on to block_ip for the given reason
GoesToBlock(t, reason) == pc'[t] = "tc_block" /\ call'[t].why = reason

\* the connects of ip that are known to lie within the last minute before the
\* step: those on record in its tracker and, where no tracker is kept, the one
\* that has returned in the step before
SeenConnects(ip) ==
    IF ip \in DOMAIN connection_counts THEN RecentConnects(ip) - 1
    ELSE IF last.call.op = "track_connection" /\ last.call.ip = ip /\ last.call.connected
         THEN 1 ELSE 0

\* C22 as stated: a track_connection(ip, true) made when connection_rate_limit
\* or more connects of the IP lie within the last 60 s does not return true: it
\* returns false with a block, DdosDetection for 1800 s within the ceiling and
\* TooManyConnections for 600 s over it.
C22_ConnectRateBlock_Always ==
    [][\A t \in Tasks, ip \in IPs :
          /\ TracksNow(t, ip, TRUE)
          /\ SeenConnects(ip) + 1 > ddos_config.connection_rate_limit
          => /\ ~(last'.task = t /\ last'.ret = BoolResult(TRUE))
             /\ pc'[t] = "tc_block"
             /\ call'[t].why \in {"DdosDetection", "TooManyConnections"}]_vars

\* C22 amended: with DDoS protection enabled, a track_connection(ip, true)
\* that leaves active_connections within the ceiling returns false with a
\* DdosDetection block of 1800 s exactly when more than connection_rate_limit
\* connects of the IP lie within the last 60 s, the older ones being dropped
\* from the window; over the ceiling the block is TooManyConnections for 600 s
\* instead.  With DDoS protection disabled track_connection returns true and
\* records nothing.
C22_ConnectRateBlock ==
    [][\A t \in Tasks :
          /\ \A ip \in IPs :
                TracksNow(t, ip, TRUE) /\ ddos_config.enabled =>
                   /\ Len(connection_counts'[ip].connection_rate) = RecentConnects(ip)
                   /\ IF connection_counts'[ip].active_connections
                           > ddos_config.max_connections_per_ip
                      THEN GoesToBlock(t, "TooManyConnections")
                      ELSE IF RecentConnects(ip) > ddos_config.connection_rate_limit
                      THEN GoesToBlock(t, "DdosDetection")
                      ELSE last'.task = t /\ last'.ret = BoolResult(TRUE)
          /\ \A ip \in IPs, connected \in BOOLEAN :
                TracksNow(t, ip, connected) /\ ~ddos_config.enabled =>
                   /\ last'.task = t
                   /\ last'.ret = BoolResult(TRUE)
                   /\ connection_counts' = connection_counts
                   /\ blocked_ips' = blocked_ips
          /\ pc[t] = "tc_block" /\ pc'[t] # "tc_block" =>
                /\ last'.task = t
                /\ last'.ret = BoolResult(FALSE)
                /\ call[t].ip \in DOMAIN blocked_ips'
                /\ blocked_ips'[call[t].ip].reason = call[t].why
                /\ blocked_ips'[call[t].ip].blocked_until
                     = now + (IF call[t].why = "DdosDetection"
                              THEN DdosBlockSecs ELSE ConnBlockSecs)
          /\ /\ last'.task = t
             /\ last'.call.op = "track_connection"
             /\ last'.ret = BoolResult(FALSE)
             => pc[t] = "tc_block"]_vars

\* a connect made exactly one minute after the one before it, within the
\* ceiling, has been answered false with a DdosDetection block of 1800 s,
\* and the connects on record are those two
C22_Witness ==
    /\ ddos_config.enabled
    /\ last.call.op = "track_connection"
    /\ last.call.connected
    /\ last.ret = BoolResult(FALSE)
    /\ last.call.why = "DdosDetection"
    /\ now = RateWindowSecs
    /\ connection_counts[last.call.ip].connection_rate = <<0, RateWindowSecs>>
    /\ connection_counts[last.call.ip].active_connections
         <= ddos_config.max_connections_per_ip
    /\ blocked_ips[last.call.ip].blocked_until = now + DdosBlockSecs


\* the active connections on record for ip, none when it has no tracker
ActiveOf(table, ip) == IF ip \in DOMAIN table THEN table[ip].active_connections ELSE 0

\* C23: with DDoS protection enabled the tracker's active_connections of an
\* IP is the running count of its connects minus its disconnects, floored at
\* zero: every connect adds one, also one that is answered false, every
\* disconnect takes one off unless the count is zero, and nothing else changes
\* it; a disconnect leaves the block table as it is and returns true.
C23_RunningCount ==
    [][ddos_config.enabled =>
          \A ip \in IPs :
             /\ ActiveOf(connection_counts', ip) =
                  IF \E t \in Tasks : TracksNow(t, ip, TRUE)
                  THEN ActiveOf(connection_counts, ip) + 1
                  ELSE IF \E t \in Tasks : TracksNow(t, ip, FALSE)
                  THEN Max(ActiveOf(connection_counts, ip) - 1, 0)
                  ELSE ActiveOf(connection_counts, ip)
             /\ \A t \in Tasks :
                   TracksNow(t, ip, FALSE) =>
                      /\ blocked_ips' = blocked_ips
                      /\ last'.task = t
                      /\ last'.ret = BoolResult(TRUE)]_vars

\* a disconnect of an IP that has a block record and no connection open has
\* returned true and has left the count at zero
C23_Witness ==
    /\ ddos_config.enabled
    /\ last.call.op = "track_connection"
    /\ ~last.call.connected
    /\ last.ret = BoolResult(TRUE)
    /\ last.call.ip \in DOMAIN blocked_ips
    /\ last.call.ip \in DOMAIN connection_counts
    /\ connection_counts[last.call.ip].active_connections = 0
    /\ Len(connection_counts[last.call.ip].connection_rate) = MaxConnects


\* the table without the records of the given keys
Without(table, keys) == [k \in DOMAIN table \ keys |-> table[k]]

\* the block records that are not in the future at time at
ExpiredAt(at) == {ip \in DOMAIN blocked_ips : blocked_ips[ip].blocked_until <= at}

\* the trackers with no connection open and none made for an hour before at
IdleAt(at) ==
    {ip \in DOMAIN connection_counts :
        /\ connection_counts[ip].active_connections = 0
        /\ at - connection_counts[ip].last_connection >= TrackerIdleSecs}

\* task t takes a step of cleanup_expired
Cleaning(t) == pc'[t] # pc[t] /\ StepCall(t).op = "cleanup_expired"

\* C24: cleanup_expired removes exactly the block records whose blocked_until
\* is not in the future of the clock it read when it was called, and exactly
\* the trackers with no active connection that have been idle for an hour or
\* more by that clock; a
\* record that still blocks and a tracker with active connections stay as
\* they are, so no Blocked decision becomes an admission.
C24_CleanupExact ==
    [][\A t \in Tasks :
          /\ pc[t] = "idle" /\ Cleaning(t) =>
                /\ call'[t].at = now
                /\ blocked_ips' = blocked_ips
                /\ connection_counts' = connection_counts
          /\ pc[t] = "cl_blocks" /\ pc'[t] # "cl_blocks" =>
                /\ blocked_ips' = Without(blocked_ips, ExpiredAt(call[t].at))
                /\ connection_counts' = connection_counts
          /\ pc[t] = "cl_trackers" /\ pc'[t] # "cl_trackers" =>
                /\ connection_counts' = Without(connection_counts, IdleAt(call[t].at))
                /\ blocked_ips' = blocked_ips
          /\ pc[t] = "cl_limiters" /\ pc'[t] # "cl_limiters" =>
                /\ connection_counts' = connection_counts
                /\ blocked_ips' = blocked_ips
          /\ Cleaning(t) =>
                \A ip \in IPs :
                   /\ ip \in DOMAIN blocked_ips /\ now < blocked_ips[ip].blocked_until
                      => ip \in DOMAIN blocked_ips' /\ blocked_ips'[ip] = blocked_ips[ip]
                   /\ ActiveOf(connection_counts, ip) > 0
                      => /\ ip \in DOMAIN connection_counts'
                         /\ connection_counts'[ip] = connection_counts[ip]]_vars

\* a cleanup has finished, and of an IP that was blocked before it neither the
\* block record nor the tracker is left
C24_Witness ==
    /\ last.call.op = "cleanup_expired"
    /\ last.call.at = now
    /\ \E ip \in IPs :
          /\ block_promise[ip] > 0
          /\ ip \notin DOMAIN blocked_ips
          /\ ip \notin DOMAIN connection_counts


\* task t takes a step
Steps(t) == pc'[t] # pc[t] \/ call'[t] # call[t]

\* the forward of task t is pinned: select_upstream returned the named member
\* without a scan of the list
Pinned(t) ==
    /\ call[t].op = "forward_request"
    /\ call[t].member # 0
    /\ call[t].scan = 0

\* C25: a forward whose pool name is non-empty, not "*", and names a member
\* that is healthy gets that member at once, and neither its selection nor
\* any later step of it changes the rotation counter: the members picked by
\* the round-robin rotation for the other requests follow one another as if
\* the pinned requests had not been made.
C25_PinnedLeavesRotation ==
    [][/\ \A t \in Tasks :
             /\ /\ pc[t] = "idle"
                /\ StepCall(t).op = "forward_request"
                /\ StepCall(t).pool \notin {"", "*"}
                /\ Named(StepCall(t).pool) # {}
                /\ healthy[FirstNamed(StepCall(t).pool)]
                => /\ pc'[t] = "fr_count"
                   /\ call'[t].member = FirstNamed(call'[t].pool)
                   /\ call'[t].scan = 0
                   /\ round_robin_counter' = round_robin_counter
                   /\ picks' = picks
             /\ Pinned(t) /\ Steps(t) =>
                   /\ round_robin_counter' = round_robin_counter
                   /\ picks' = picks
       /\ load_balancing = "RoundRobin" =>
             /\ Len(picks') = round_robin_counter'
             /\ \A k \in 1..Len(picks') : picks'[k] = ((k - 1) % Len(upstreams)) + 1]_vars

\* a forward pinned to member "b" has been given that member without a scan,
\* after the rotation has served another request and while it serves a third
C25_Witness ==
    /\ pc["t1"] = "fr_count"
    /\ call["t1"].pool = "b"
    /\ call["t1"].scan = 0
    /\ upstreams[call["t1"].member].name = "b"
    /\ round_robin_counter = 1
    /\ pc["t2"] = "fr_pick"


\* task t ends a least-connections selection in this step
SelectsLeast(t) ==
    /\ load_balancing = "LeastConnections"
    /\ pc[t] \in {"fr_pick", "fr_least"}
    /\ pc'[t] = "fr_count"

\* place i of the list holds the first of the smallest counts
FirstSmallest(counts, i) ==
    /\ \A j \in 1..Len(counts) : counts[i] <= counts[j]
    /\ \A j \in 1..(i - 1) : counts[j] > counts[i]

\* C26 as stated: under least-connections the member selected is, at
\* selection time, the first in list order of the healthy members with the
\* fewest active_connections: at some instant of the selection it was; the
\* rotation counter is not changed.
C26_LeastAtSelectionTime ==
    [][\A t \in Tasks :
          SelectsLeast(t) =>
             /\ call'[t].member \in call'[t].mins
             /\ round_robin_counter' = round_robin_counter]_vars

\* C26: under least-connections the member selected is the first in list
\* order of the healthy members with the fewest active_connections among the
\* counts select loaded, one member after the other; it is the least
\* connected at selection time when those counts still stand at the end of
\* the selection; the rotation counter is not changed.
C26_LeastByLoads ==
    [][\A t \in Tasks :
          /\ SelectsLeast(t) =>
                /\ Len(call'[t].loads) = Len(call'[t].seen)
                /\ \E i \in 1..Len(call'[t].seen) :
                      /\ call'[t].seen[i] = call'[t].member
                      /\ FirstSmallest(call'[t].loads, i)
                /\ (\A i \in 1..Len(call'[t].seen) :
                       call'[t].loads[i] = active_connections[call'[t].seen[i]])
                   => call'[t].member = LeastConnected(call'[t].seen)
          /\ /\ load_balancing = "LeastConnections"
             /\ pc[t] \in {"fr_pick", "fr_least"}
             /\ Steps(t)
             => round_robin_counter' = round_robin_counter]_vars

\* a least-connections selection has ended on the first of two members that
\* were loaded with one connection each, while the other task has one open
C26_Witness ==
    /\ load_balancing = "LeastConnections"
    /\ pc["t1"] = "fr_count"
    /\ call["t1"].loads = <<1, 1>>
    /\ call["t1"].member = call["t1"].seen[1]
    /\ pc["t2"] = "fr_await"


\* the weights of the members before member u in the list, summed
RECURSIVE WeightBefore(_)
WeightBefore(u) == IF u = 1 THEN 0 ELSE upstreams[u - 1].weight + WeightBefore(u - 1)

\* the weights of all members, summed
WeightOfAll == WeightBefore(Len(upstreams) + 1)

\* task t ends a selection of the load balancer in this step
Balances(t) == pc[t] = "fr_pick" /\ pc'[t] # "fr_pick"

C28_IpHashIsRoundRobin ==
    [][(load_balancing = "IpHash" \/ load_balancing = "RoundRobin") =>
          \A t \in Tasks :
             Balances(t) =>
                /\ pc'[t] = "fr_count"
                /\ round_robin_counter' = round_robin_counter + 1
                /\ call'[t].member
                     = call[t].seen[(round_robin_counter % Len(call[t].seen)) + 1]
                /\ picks' = Append(picks, call'[t].member)]_vars

\* under IP-hash three selections over two members have gone to the first,
\* the second and the first again
C28_Witness ==
    /\ load_balancing = "IpHash"
    /\ Len(upstreams) = 2
    /\ picks = <<1, 2, 1>>
    /\ round_robin_counter = 3


\* what the health checking keeps of member u
HealthOf(u) ==
    <<probes[u], stamping[u], healthy[u], current_fails[u], last_health_check[u]>>

\* a probe of member u moves in this step: it leaves a position and no round
\* has put a new one at check_upstream_health
ProbeMoves(u) ==
    \/ /\ probes'[u] # probes[u]
       /\ probes'[u]["check"] <= probes[u]["check"]
    \/ stamping'[u] # stamping[u]

\* every probe of member v can take its next step
ProbesFree(v) ==
    /\ probes[v]["check"] > 0 =>
          /\ v \notin Silent => ENABLED ProbeSucceeded(v)
          /\ current_fails[v] < MaxFailCount => ENABLED ProbeFailed(v)
    /\ probes[v]["fail_load"] > 0 => ENABLED ProbeLoadFails(v)
    /\ probes[v]["mark_unhealthy"] > 0 => ENABLED ProbeMarkUnhealthy(v)
    /\ probes[v]["ok_load"] > 0 => ENABLED ProbeLoadHealthy(v)
    /\ probes[v]["mark_healthy"] > 0 => ENABLED ProbeMarkHealthy(v)
    /\ probes[v]["stamp"] > 0 => ENABLED ProbeStamp(v)
    /\ Stamping(v, Instants) > 0 => ENABLED ProbeStampWrite(v)

\* C29: the probes are independent per member: while probes of one member
\* wait for their timeout or fail, a round can still start, every probe of
\* every other member can take its next step up to the application of its
\* result, a step of a probe changes nothing that is kept of another member,
\* and select_upstream can take its next step on the request path.
C29_ProbesIndependent ==
    [][/\ (\A u \in Members : InFlight(u) < MaxProbes) => ENABLED HealthRound
       /\ \A v \in Members : ProbesFree(v)
       /\ \A u \in Members, v \in Members :
             u # v /\ ProbeMoves(u) => HealthOf(v)' = HealthOf(v)
       /\ \A t \in Tasks :
             /\ pc[t] = "fr_scan" => ENABLED ScanHealthy(t)
             /\ pc[t] = "fr_pick" => ENABLED PickUpstream(t)]_vars

\* two probes of the first member, one of an earlier round, still wait at
\* check_upstream_health; the probes of the second member have all finished,
\* one of them having marked it unhealthy; and select_upstream has chosen
C29_Witness ==
    /\ probes[1]["check"] = MaxProbes
    /\ overlapped[1]
    /\ InFlight(2) = 0
    /\ ~healthy[2]
    /\ last_health_check[1] = 0
    /\ pc["t1"] = "fr_count"


\* the method set of the route is empty or contains the method of the call,
\* and its path pattern matches the path of the call
FitsMethodAndPath(route, c) ==
    /\ route.methods = {} \/ c.method \in route.methods
    /\ pattern_matches(route.path_pattern, c.path)

\* the host pattern of the route is absent or equals the host of the call
HostEquals(route, c) ==
    route.host_pattern = None \/ (c.host # None /\ route.host_pattern[1] = c.host[1])

\* the host pattern of the route is absent or matches the host of the call as
\* a path pattern matches a path
HostMatches(route, c) ==
    route.host_pattern = None
      \/ (c.host # None /\ pattern_matches(route.host_pattern[1], c.host[1]))

\* C30 as stated: route_request dispatches to the first route in table order
\* whose method set is empty or contains the method, whose host pattern is
\* absent or equals the request host, and whose path pattern matches; a route
\* with a host pattern gets no request without a Host header or with another
\* host; a request that no route matches is answered 404.
C30_FirstMatchHostEquals ==
    Routed =>
        LET c == last.call IN
        /\ c.route # 0 =>
              /\ FitsMethodAndPath(routes[c.route], c) /\ HostEquals(routes[c.route], c)
              /\ \A j \in 1..(c.route - 1) :
                    ~(FitsMethodAndPath(routes[j], c) /\ HostEquals(routes[j], c))
        /\ c.route = 0 =>
              /\ \A j \in 1..Len(routes) :
                    ~(FitsMethodAndPath(routes[j], c) /\ HostEquals(routes[j], c))
              /\ last.ret = StatusResult("NOT_FOUND")

\* C30: route_request dispatches to the first route in table order whose
\* method set is empty or contains the method, whose host pattern is absent or
\* matches the request host by the rules of pattern_matches, and whose path
\* pattern matches; a route with a host pattern gets no request without a
\* Host header; a request that no route matches is answered 404.
C30_FirstMatchHostPattern ==
    Routed =>
        LET c == last.call IN
        /\ c.route # 0 =>
              /\ FitsMethodAndPath(routes[c.route], c) /\ HostMatches(routes[c.route], c)
              /\ \A j \in 1..(c.route - 1) :
                    ~(FitsMethodAndPath(routes[j], c) /\ HostMatches(routes[j], c))
              /\ routes[c.route].host_pattern # None => c.host # None
        /\ c.route = 0 =>
              /\ \A j \in 1..Len(routes) :
                    ~(FitsMethodAndPath(routes[j], c) /\ HostMatches(routes[j], c))
              /\ last.ret = StatusResult("NOT_FOUND")

\* a POST with host "h" has gone to the second added route, of host pattern
\* "h", past a route for GET alone that stands before it in the table
C30_Witness ==
    /\ Routed
    /\ last.call.method = "POST"
    /\ last.call.host = Some(<<"h">>)
    /\ last.call.route > 1
    /\ routes[last.call.route].host_pattern = Some(<<"h">>)
    /\ \E j \in 1..(last.call.route - 1) :
          /\ routes[j].methods = {"GET"}
          /\ routes[j].path_pattern = AnyPath

-----------------------------------------------------------------------------
(* get_stats: the reported block times and the locks *)

\* a get_stats has just returned its map
StatsReturned == last.task # NoTask /\ last.call.op = "get_stats"

\* the block records that have not expired
Unexpired == {ip \in DOMAIN blocked_ips : blocked_ips[ip].blocked_until > now}

\* C31: for every block record that has not expired, the entry of its IP in
\* the map get_stats returns reports the remaining block time in seconds,
\* blocked_until minus the current time.
C31_StatsRemaining ==
    StatsReturned =>
        \A ip \in Unexpired :
            last.ret.stats.blocked_ips[ip].blocked_until
                = blocked_ips[ip].blocked_until - now

\* a step task t can take once the lock it waits for is granted
Continues(t) ==
    \/ TrackConnectionBlock(t)
    \/ GetStatsCounts(t) \/ GetStatsLimiters(t)
    \/ CleanupBlocks(t) \/ CleanupTrackers(t) \/ CleanupLimiters(t)

\* task t is inside an operation and waits for a lock
Waits(t) ==
    /\ pc[t] \in {"tc_block", "gs_counts", "gs_limiters", "cl_blocks", "cl_trackers"}
    /\ pc[t] = "tc_block" => BlockCount(call[t].ip) < MaxBlockCount

\* C32: no interleaving of track_connection, get_stats, unblock_ip and
\* cleanup_expired deadlocks on the rate-limiter locks: whenever operations
\* have started and wait for a lock, one of them can take its next step.
C32_NoLockDeadlock ==
    (\E t \in Tasks : Waits(t)) => \E u \in Tasks : ENABLED Continues(u)

-----------------------------------------------------------------------------
(* The global bucket over all clients *)

\* the call that has just returned was refused before a bucket was consulted:
\* its client is blacklisted or blocked, or its size is over max_request_size
RefusedBeforeBuckets ==
    \/ last.ret.reason \in {"Blacklisted", "Blocked"}
    \/ Oversized(last.call) /\ last.ret.reason = "RateLimit"

\* a counted check_request has returned that began when burst calls had been
\* admitted
AfterTheBurst == Checked /\ last.call.seq > 0 /\ last.call.prior >= config.burst

\* C33 as stated: at one instant, never more than burst check_request calls are
\* admitted over all clients that are not whitelisted, and a call that begins
\* once burst calls have been admitted is denied with the reason GlobalLimit.
C33_GlobalBurst_Always ==
    ticket < MaxTickets =>
        /\ admitted <= config.burst
        /\ AfterTheBurst => ~last.ret.allowed /\ last.ret.reason = "GlobalLimit"

\* C33 amended: with admission enabled, at one instant, never more than burst
\* check_request calls are admitted over all clients that are not whitelisted,
\* and a call that begins once burst calls have been admitted is denied: with
\* the reason GlobalLimit, unless it is refused before the buckets are consulted.
C33_GlobalBurst ==
    config.enabled /\ ticket < MaxTickets =>
        /\ admitted <= config.burst
        /\ AfterTheBurst =>
              /\ ~last.ret.allowed
              /\ ~RefusedBeforeBuckets => last.ret.reason = "GlobalLimit"

\* one client has used the burst of two and the first request of the other
\* client, on no list and of no size, has been denied by the global bucket
C33_Witness ==
    /\ config.enabled
    /\ config.burst = 2
    /\ admitted = 2
    /\ AfterTheBurst
    /\ last.call.ip = "10.0.0.2"
    /\ last.call.size = NoSize
    /\ last.ret.reason = "GlobalLimit"
    /\ "10.0.0.2" \notin DOMAIN per_ip_limiters
    /\ "10.0.0.1" \in DOMAIN per_ip_limiters

-----------------------------------------------------------------------------
(* Blocking an IP that is blocked *)

\* the step blocks ip again: its record is there before and after, and counts
\* one block more
BlockedAgain(ip) ==
    /\ ip \in DOMAIN blocked_ips
    /\ ip \in DOMAIN blocked_ips'
    /\ blocked_ips'[ip].block_count > blocked_ips[ip].block_count

\* C34: while a block record of an IP exists, a further block of the IP never
\* moves its blocked_until earlier.
C34_ReblockNeverShortens ==
    [][\A ip \in IPs :
          BlockedAgain(ip) =>
              blocked_ips'[ip].blocked_until >= blocked_ips[ip].blocked_until]_vars

-----------------------------------------------------------------------------
(* Connection tracking of listed and blocked clients *)

\* a track_connection has just returned, with DDoS protection enabled
Tracked == last.call.op = "track_connection" /\ ddos_config.enabled

\* the tracker of ip is over the connection ceiling or the connection rate
OverLimits(ip) ==
    \/ connection_counts[ip].active_connections > ddos_config.max_connections_per_ip
    \/ Len(connection_counts[ip].connection_rate) > ddos_config.connection_rate_limit

\* what track_connection answers, whatever the lists and the block table say:
\* false with a block record for a connect that leaves the tracker over a limit,
\* true for any other call
TracksByLimitsAlone ==
    Tracked =>
        LET ip == last.call.ip IN
        IF last.call.connected /\ OverLimits(ip)
        THEN /\ ~last.ret.allowed
             /\ ip \in DOMAIN blocked_ips
             /\ blocked_ips[ip].reason = last.call.why
        ELSE last.ret.allowed

-----------------------------------------------------------------------------
(* The router as built *)

\* the route_request calls that are under way or have just returned
RouteCalls ==
    {c \in {call[t] : t \in Tasks} \cup {last.call} : c.op = "route_request"}

\* C36: in a router built from a configuration with the proxy enabled and at
\* least one member, every request other than GET /health is dispatched to
\* the proxy route of the first configured member: no request goes to the
\* proxy route of a later member or to the static route, and none is NotFound.
C36_FirstProxyTakesAll ==
    route_config.proxy_enabled /\ Len(upstreams) >= 1 =>
        \A c \in RouteCalls :
            IF c.method = "GET" /\ c.path = HealthPath
            THEN routes[c.route].handler.kind = "Health"
            ELSE /\ c.route # 0
                 /\ routes[c.route].nth = 2
                 /\ routes[c.route].handler
                       = [kind |-> "Proxy", upstream_name |-> upstreams[1].name]
                 /\ c.pool = upstreams[1].name

\* with two members and the static route configured, a GET for a file and a
\* POST have both been dispatched to the proxy route of the first member
C36_Witness ==
    /\ route_config.proxy_enabled
    /\ route_config.static_enabled
    /\ Len(upstreams) = 2
    /\ Len(routes) = 4
    /\ \A t \in Tasks :
          /\ pc[t] # "idle"
          /\ call[t].op = "route_request"
          /\ call[t].path # HealthPath
          /\ call[t].route = 2
          /\ call[t].pool = upstreams[1].name
    /\ call["t1"].method = "GET"
    /\ call["t2"].method = "POST"

-----------------------------------------------------------------------------
(* The request counters *)

\* the sum of the members' total_requests
RECURSIVE SumTotals(_)
SumTotals(members) ==
    IF members = {} THEN 0
    ELSE LET u == CHOOSE v \in members : TRUE
         IN total_requests[u] + SumTotals(members \ {u})

\* a forward_request stands between request_counter.fetch_add and
\* total_requests.fetch_add
BetweenIncrements == \E t \in Tasks : pc[t] = "fr_total"

\* the request counters are as they were
CountersKept ==
    UNCHANGED <<request_counter, total_requests>>

\* the forward_request of task t returns without a member selected
SelectionFails(t) ==
    /\ last'.task = t
    /\ pc[t] \in {"idle", "fr_scan", "fr_pick", "fr_least"}
    /\ pc'[t] = "idle"

\* the selection of task t succeeds
SelectionSucceeds(t) == pc[t] # "fr_count" /\ pc'[t] = "fr_count"

\* C37: the manager's request counter is at least the sum of the members'
\* total_requests, and equal to it whenever no forward_request is between its
\* two increments; a forward_request whose selection fails changes no request
\* counter, and one whose selection succeeds adds one to the manager's counter
\* and then one to the total of the member selected, and to no other.
C37_RequestCounters ==
    /\ [](/\ request_counter >= SumTotals(Members)
          /\ ~BetweenIncrements => request_counter = SumTotals(Members))
    /\ [][\A t \in Tasks :
            /\ SelectionFails(t) =>
                  /\ CountersKept
                  /\ last'.call.member = 0
                  /\ ~last'.ret.allowed
            /\ SelectionSucceeds(t) => CountersKept /\ call'[t].member \in Members
            /\ pc[t] = "fr_count" /\ pc'[t] # pc[t] =>
                  /\ pc'[t] = "fr_total"
                  /\ request_counter' = request_counter + 1
                  /\ UNCHANGED total_requests
            /\ pc[t] = "fr_total" /\ pc'[t] # pc[t] =>
                  /\ pc'[t] = "fr_open"
                  /\ total_requests' = [total_requests EXCEPT ![call[t].member] = @ + 1]
                  /\ UNCHANGED request_counter
            /\ pc[t] \in {"fr_open", "fr_await"} /\ pc'[t] # pc[t] => CountersKept]_vars

\* one forward has been counted twice over and answered, and another has
\* returned with no member healthy, the counters at one and one
C37_Witness ==
    /\ last.call.op = "forward_request"
    /\ last.call.member = 0
    /\ last.ret = StatusResult("BAD_GATEWAY")
    /\ request_counter = 1
    /\ SumTotals(Members) = 1

-----------------------------------------------------------------------------
(* Forwarding and the health of the members *)

\* every member is Healthy and has no failure counted
AllHealthy == \A u \in Members : healthy[u] /\ current_fails[u] = 0

\* C38: no step of forward_request changes the healthy flag or the
\* consecutive-fail counter of a member, whatever the forward returns; with
\* health checking disabled every member stays Healthy for ever.
C38_ForwardLeavesHealth ==
    /\ [](~health_check.enabled => AllHealthy)
    /\ [][pc' # pc => UNCHANGED <<healthy, current_fails>>]_vars

\* with health checking disabled two forwards have failed at the member,
\* which is Healthy still
C38_Witness ==
    /\ ~health_check.enabled
    /\ forwards = MaxForwards
    /\ last.call.op = "forward_request"
    /\ last.call.member = 1
    /\ last.ret = StatusResult("BAD_GATEWAY")
    /\ total_requests[1] = 2
    /\ active_connections[1] = 0
    /\ AllHealthy

-----------------------------------------------------------------------------
(* Weighted selection over weights that sum to zero *)

\* C39: weighted selection never fails on a healthy set that is not empty,
\* whatever the weights: it selects a member, the first healthy one when the
\* weights of the healthy members sum to zero.
C39_WeightedNeverFails ==
    [][load_balancing = "Weighted" =>
          \A t \in Tasks :
              Balances(t) /\ call[t].seen # <<>> =>
                  /\ pc'[t] = "fr_count"
                  /\ call'[t].member \in Members
                  /\ TotalWeight(call[t].seen) = 0 =>
                        call'[t].member = call[t].seen[1]]_vars

-----------------------------------------------------------------------------
(* Recovery of a member *)

\* a probe of member u fails again and again
FailsForEver(u) == []<><<ProbeFailed(u)>>_vars

\* C40: with health checking enabled and the probes scheduled fairly, a member
\* whose probes all succeed from some point on is Healthy in the end and stays
\* Healthy, also when the stores of earlier failed probes land after later
\* successes.
C40_RecoversForGood ==
    health_check.enabled => \A u \in {1} : FailsForEver(u) \/ <>[]healthy[u]

\* a failed probe has marked the member Unhealthy after a later probe had
\* succeeded and reset the counter, and another probe is under way
C40_Witness ==
    /\ health_check.enabled
    /\ ~healthy[1]
    /\ current_fails[1] = 0
    /\ overlapped[1]
    /\ probes[1]["check"] > 0

====
